---- MODULE Spec2Model ----
(***************************************************************************)
(* Model of the statement parsing engine of Eventide (Rubbin Hood):        *)
(* the ParserRegistry (registration catalog, derived version index,        *)
(* parser selection, parse / parseWithVersion / parseAndValidate) together *)
(* with the document gatekeeper and the version detector it calls.         *)
(*                                                                         *)
(* JavaScript runs the registry on one thread: a synchronous method is one *)
(* atomic action, an async method is split at each await.  Registered      *)
(* parsers are plug-ins, so what their canParse / parse / validate do for  *)
(* a document is an input of the model.                                    *)
(***************************************************************************)
EXTENDS Integers, Sequences, FiniteSets, TLC

\* ------------------------------------------------------------------------
\* Bounds of the model
\* ------------------------------------------------------------------------
\* number of distinct parser version ids that can be registered
MaxParsers == 2
\* longest ValidationResult.errors list
MaxErrors == 2

VersionIds == <<"parser-a", "parser-b", "parser-c", "parser-d">>
ParserIds == {VersionIds[i] : i \in 1..MaxParsers}
\* priorities parsers are registered with (the two of the registry scenario)
Priorities == {5, 10}

\* ------------------------------------------------------------------------
\* Version detector (the parts the registry depends on)
\* ------------------------------------------------------------------------
\* Object.values(STATEMENT_FORMAT_VERSIONS), in key order
getSupportedVersions == <<"v1.0", "v1.1">>

\* What the date / structure / heuristic / fallback branches of detectVersion
\* can yield for a document that passed the gatekeeper (confidence in percent)
Detections ==
    { [version |-> "v1.1", confidence |-> 95, method |-> "date"],
      [version |-> "v1.0", confidence |-> 50, method |-> "fallback"] }

\* A document, seen through the three regular expressions of the gatekeeper
\* and through the result of the later detection branches
\* (variant: the brand token alone passes)
isRobinhoodDerivativesStatement_BrandOnly(doc) ==
    doc.hasRobinhood

isRobinhoodDerivativesStatement(doc) ==
    doc.hasRobinhood /\ (doc.hasDerivatives \/ doc.hasStatementIndicator)

\* The later branches are not evaluated for a document the gatekeeper turns
\* away, so such a document is listed once
Docs ==
    { doc \in [ hasRobinhood : BOOLEAN, hasDerivatives : BOOLEAN,
                hasStatementIndicator : BOOLEAN, detected : Detections ] :
        ~isRobinhoodDerivativesStatement(doc) => doc.detected.method = "fallback" }

detectVersion(doc) ==
    IF ~isRobinhoodDerivativesStatement(doc)
    THEN [version |-> "v1.0", confidence |-> 0, method |-> "fallback"]
    ELSE doc.detected

\* ------------------------------------------------------------------------
\* Parser plug-ins
\* ------------------------------------------------------------------------
\* A StatementParser object, known by its version id (the registry key)
ParserObjects == [version : ParserIds]
NoParser == [version |-> "none"]

\* canParse(doc) of a parser returns true, returns false, or throws
CanOutcomes == {"true", "false", "throw"}

\* Values a parser method can throw / reject with: Error instances carry a
\* message; anything else (a string, a plain object) is not an Error
ThrownValues ==
    { [isError |-> TRUE,  message |-> "m1"],
      [isError |-> TRUE,  message |-> "m2"],
      [isError |-> FALSE, message |-> "m1"] }

\* ParsedStatement as produced by a parser: the warnings it already carries
\* (each a string, written as the list of its pieces) and the rest of its
\* fields (trades stands for every other field)
StatementBodies ==
    { [trades |-> "no-trades",    warnings |-> <<>>],
      [trades |-> "three-trades", warnings |-> << <<"row skipped">> >>] }
NoStatement == [parserVersion |-> "none", trades |-> "none", warnings |-> <<>>]

\* ValidationResult: success flag and error messages (sections, pnlValidation
\* and warnings are not read by the registry)
ErrorTexts == {"e1", "e2"}
ErrorLists == UNION {[1..n -> ErrorTexts] : n \in 0..MaxErrors}
ValidationResults == [success : BOOLEAN, errors : ErrorLists]
NoValidation == [success |-> TRUE, errors |-> <<>>]

\* ------------------------------------------------------------------------
\* State
\* ------------------------------------------------------------------------
VARIABLES
    parsers,            \* Map<string, ParserRegistration>, in insertion order
    versionParserMap,   \* Map<StatementVersion, string[]>, in insertion order
    call,               \* the registry call being observed (one at a time):
                        \*   op, doc, arg       the method called and its arguments
                        \*   can                the answer of each parser's canParse(doc)
                        \*   pc                 idle | awaiting (parser.parse pending) |
                        \*                      parsed (inner parse resolved) | done
                        \*   chosen, versionInfo  the locals of the call
                        \*   log                the plug-in methods invoked, in order
                        \*   outcome, error     how the call ended
                        \*   threwIn, thrown    the plug-in method that threw, and what
                        \*   statement          what parser.parse resolved with
                        \*   result, validation, validator  what the call resolves with
    fnCall,             \* the call of a standalone (pure) function being observed:
                        \*   fn                 the function, "none" when there is none
                        \*   arg, ret           its argument and what it returned
                        \*   pc                 called | returned
    db,                 \* the database layer (lib/db): the module variables of
                        \* client.ts and the one SQLite connection they hold
    dbCalls               \* the asynchronous database calls in flight, by caller:
                        \* each one's position (pc), locals and how it settled

vars == <<parsers, versionParserMap, call, fnCall, db, dbCalls>>

\* no database opened, no database call made
NoDatabase == <<>>
NoDbCalls == <<>>

NoFnCall == [fn |-> "none", pc |-> "returned", arg |-> <<>>, ret |-> <<>>]

NoError == [name |-> "none", code |-> "none", message |-> <<>>]
NoVersionInfo == [version |-> "none", confidence |-> 0, method |-> "none"]
NoResult ==
    [statement |-> NoStatement, versionInfo |-> NoVersionInfo, parserVersion |-> "none"]
\* no document on record (not an element of Docs)
NoDoc ==
    [hasRobinhood |-> FALSE, hasDerivatives |-> FALSE, hasStatementIndicator |-> FALSE,
     detected |-> NoVersionInfo]
NoCan == [i \in ParserIds |-> "false"]

IdleCall ==
    [ op |-> "none", pc |-> "idle", doc |-> NoDoc, can |-> NoCan, arg |-> "none",
      chosen |-> NoParser, versionInfo |-> NoVersionInfo, log |-> <<>>,
      outcome |-> "none", error |-> NoError,
      threwIn |-> "none", thrown |-> [isError |-> FALSE, message |-> "none"],
      statement |-> NoStatement, result |-> NoResult,
      validation |-> NoValidation, validator |-> NoParser ]

\* ------------------------------------------------------------------------
\* Map primitives (a JavaScript Map keeps insertion order; set on an
\* existing key keeps the key's position)
\* ------------------------------------------------------------------------
mapHas(m, k) == \E i \in 1..Len(m) : m[i].key = k
mapIndex(m, k) == CHOOSE i \in 1..Len(m) : m[i].key = k
mapGet(m, k) == m[mapIndex(m, k)].value
mapSet(m, k, v) ==
    IF mapHas(m, k)
    THEN [m EXCEPT ![mapIndex(m, k)] = [key |-> k, value |-> v]]
    ELSE Append(m, [key |-> k, value |-> v])
mapDelete(m, k) ==
    IF mapHas(m, k)
    THEN SubSeq(m, 1, mapIndex(m, k) - 1) \o SubSeq(m, mapIndex(m, k) + 1, Len(m))
    ELSE m

\* Array.prototype.sort((a, b) => b.priority - a.priority): stable, descending
insertByPriority(sorted, r) ==
    LET k == Cardinality({j \in 1..Len(sorted) : sorted[j].priority >= r.priority})
    IN  SubSeq(sorted, 1, k) \o <<r>> \o SubSeq(sorted, k + 1, Len(sorted))

RECURSIVE sortFrom(_, _, _)
sortFrom(s, i, sorted) ==
    IF i > Len(s) THEN sorted
    ELSE sortFrom(s, i + 1, insertByPriority(sorted, s[i]))

sortByPriority(s) == sortFrom(s, 1, <<>>)

\* ------------------------------------------------------------------------
\* ParserRegistry: catalog and derived index
\* ------------------------------------------------------------------------
\* A ParserRegistration as stored under its key
Registration(parser, priority, enabled) ==
    [parser |-> parser, priority |-> priority, enabled |-> enabled]

\* Array.from(this.parsers.values())
registrations(regs) == [i \in 1..Len(regs) |-> regs[i].value]

\* The inner loop of rebuildVersionMap: push the id under every supported version
RECURSIVE pushUnderVersions(_, _, _)
pushUnderVersions(vmap, id, i) ==
    IF i > Len(getSupportedVersions) THEN vmap
    ELSE LET sv == getSupportedVersions[i]
             withKey == IF mapHas(vmap, sv) THEN vmap ELSE mapSet(vmap, sv, <<>>)
         IN  pushUnderVersions(mapSet(withKey, sv, Append(mapGet(withKey, sv), id)), id, i + 1)

RECURSIVE rebuildFrom(_, _, _)
rebuildFrom(regs, i, vmap) ==
    IF i > Len(regs) THEN vmap
    ELSE IF ~regs[i].value.enabled THEN rebuildFrom(regs, i + 1, vmap)
    ELSE rebuildFrom(regs, i + 1, pushUnderVersions(vmap, regs[i].key, 1))

\* rebuildVersionMap: clear, then map every enabled parser to every version
rebuildVersionMap(regs) == rebuildFrom(regs, 1, <<>>)

\* (variant: the enabled flag is not looked at)
getParser_IgnoresEnabled(regs, version) ==
    IF mapHas(regs, version) THEN mapGet(regs, version).parser ELSE NoParser

\* getParser(version): the parser stored under the id if it is enabled
getParser(regs, version) ==
    IF mapHas(regs, version) /\ mapGet(regs, version).enabled
    THEN mapGet(regs, version).parser
    ELSE NoParser

\* getAllParsers: enabled registrations by descending priority
\* (kept as registrations; their .parser is what the method returns)
getAllParsers(regs) ==
    sortByPriority(SelectSeq(registrations(regs), LAMBDA r : r.enabled))

\* One entry of the record of plug-in methods the registry invoked
Invoked(parser, method) == [parser |-> parser, method |-> method]

\* getCompatibleParsers: getAllParsers().filter(p => p.canParse(doc)); a
\* canParse that throws ends the filter with that exception
RECURSIVE filterCanParse(_, _, _, _, _)
filterCanParse(sorted, i, can, kept, log) ==
    IF i > Len(sorted) THEN [threw |-> FALSE, parsers |-> kept, log |-> log]
    ELSE LET p == sorted[i].parser
             log2 == Append(log, Invoked(p, "canParse"))
         IN  IF can[p.version] = "throw"
             THEN [threw |-> TRUE, parsers |-> kept, log |-> log2]
             ELSE filterCanParse(sorted, i + 1, can,
                                 IF can[p.version] = "true" THEN Append(kept, p) ELSE kept,
                                 log2)

getCompatibleParsers(regs, can, log) == filterCanParse(getAllParsers(regs), 1, can, <<>>, log)

\* The candidate loop of findBestParser: first registration whose canParse is true
RECURSIVE firstCanParse(_, _, _, _)
firstCanParse(sorted, i, can, log) ==
    IF i > Len(sorted) THEN [kind |-> "none", parser |-> NoParser, log |-> log]
    ELSE LET p == sorted[i].parser
             log2 == Append(log, Invoked(p, "canParse"))
         IN  IF can[p.version] = "throw"
             THEN [kind |-> "threw", parser |-> NoParser, log |-> log2]
             ELSE IF can[p.version] = "true"
             THEN [kind |-> "found", parser |-> p, log |-> log2]
             ELSE firstCanParse(sorted, i + 1, can, log2)

\* versionParsers.map(v => this.parsers.get(v)).filter(r => r !== undefined && r.enabled)
candidateRegistrations(regs, ids) ==
    LET known == SelectSeq(ids, LAMBDA v : mapHas(regs, v) /\ mapGet(regs, v).enabled)
    IN  [i \in 1..Len(known) |-> mapGet(regs, known[i])]

\* findBestParser(document): kind is "parser" (returned {parser, versionInfo}),
\* "null" (returned null) or "threw" (a canParse exception escaped)
findBestParser(regs, vmap, doc, can) ==
    LET versionInfo == detectVersion(doc)
        versionParsers == IF mapHas(vmap, versionInfo.version)
                          THEN mapGet(vmap, versionInfo.version) ELSE <<>>
        sortedParsers == sortByPriority(candidateRegistrations(regs, versionParsers))
        first == firstCanParse(sortedParsers, 1, can, <<>>)
        compatible == getCompatibleParsers(regs, can, first.log)
    IN  IF first.kind = "found"
        THEN [kind |-> "parser", parser |-> first.parser, versionInfo |-> versionInfo,
              log |-> first.log]
        ELSE IF first.kind = "threw"
        THEN [kind |-> "threw", parser |-> NoParser, versionInfo |-> versionInfo,
              log |-> first.log]
        ELSE IF compatible.threw
        THEN [kind |-> "threw", parser |-> NoParser, versionInfo |-> versionInfo,
              log |-> compatible.log]
        ELSE IF Len(compatible.parsers) > 0
        THEN [kind |-> "parser", parser |-> compatible.parsers[1], versionInfo |-> versionInfo,
              log |-> compatible.log]
        ELSE [kind |-> "null", parser |-> NoParser, versionInfo |-> versionInfo,
              log |-> compatible.log]

\* ------------------------------------------------------------------------
\* Errors and results
\* ------------------------------------------------------------------------
\* new ParserRegistryError(message, code); a message is the list of the
\* pieces its template literal concatenates
ParserRegistryError(message, code) ==
    [name |-> "ParserRegistryError", code |-> code, message |-> message]

\* A value thrown by a plug-in that reaches the caller as it is
escaped(t) ==
    [name |-> IF t.isError THEN "Error" ELSE "non-Error", code |-> "none",
     message |-> <<t.message>>]

\* (variant: the message of the original error is not carried over)
parseFailed_DropsMessage(t) ==
    ParserRegistryError(<<"Parse failed: ", "Unknown error">>, "PARSE_FAILED")

\* `Parse failed: ${error instanceof Error ? error.message : "Unknown error"}`
parseFailed(t) ==
    ParserRegistryError(<<"Parse failed: ", IF t.isError THEN t.message ELSE "Unknown error">>,
                        "PARSE_FAILED")

NoThrown == [isError |-> FALSE, message |-> "none"]

\* What a canParse that throws throws
CanParseThrown == {[isError |-> TRUE, message |-> "m1"]}

\* The statements a parser of the given version id can resolve with
Statements(version) ==
    { [parserVersion |-> version, trades |-> b.trades, warnings |-> b.warnings] :
        b \in StatementBodies }

\* canParse answers for a document; ids without a registration have no
\* parser object to ask
CanTables(regs) ==
    {can \in [ParserIds -> CanOutcomes] :
        \A v \in ParserIds : ~mapHas(regs, v) => can[v] = "false"}

\* parseWithVersion addresses one parser: only that parser's answer is drawn
AnswersOf(regs, version) ==
    {can \in CanTables(regs) : \A v \in ParserIds : v # version => can[v] = "false"}

\* ------------------------------------------------------------------------
\* Registry mutations
\* ------------------------------------------------------------------------
Init ==
    /\ parsers = <<>>
    /\ versionParserMap = <<>>
    /\ call = IdleCall
    /\ db = NoDatabase
    /\ dbCalls = NoDbCalls
    /\ fnCall = NoFnCall

\* (the mutations say what becomes of the catalog and of the index; what
\* else a step leaves unchanged is said where they are used)
\* (variant: an id that is registered keeps its registration)
register_KeepsExisting(parser, priority) ==
    /\ parsers' = IF mapHas(parsers, parser.version) THEN parsers
                  ELSE mapSet(parsers, parser.version, Registration(parser, priority, TRUE))
    /\ versionParserMap' = rebuildVersionMap(parsers')

register(parser, priority) ==
    /\ parsers' = mapSet(parsers, parser.version, Registration(parser, priority, TRUE))
    /\ versionParserMap' = rebuildVersionMap(parsers')

unregister(version) ==
    /\ parsers' = mapDelete(parsers, version)
    /\ versionParserMap' = IF mapHas(parsers, version)
                           THEN rebuildVersionMap(parsers')
                           ELSE versionParserMap

\* (variant: the flag is set and the index is left as it was)
setEnabled_SkipsRebuild(version, enabled) ==
    /\ parsers' = IF mapHas(parsers, version)
                  THEN mapSet(parsers, version,
                              [mapGet(parsers, version) EXCEPT !.enabled = enabled])
                  ELSE parsers
    /\ UNCHANGED versionParserMap

setEnabled(version, enabled) ==
    /\ parsers' = IF mapHas(parsers, version)
                  THEN mapSet(parsers, version,
                              [mapGet(parsers, version) EXCEPT !.enabled = enabled])
                  ELSE parsers
    /\ versionParserMap' = IF mapHas(parsers, version)
                           THEN rebuildVersionMap(parsers')
                           ELSE versionParserMap

\* ------------------------------------------------------------------------
\* Registry calls
\* ------------------------------------------------------------------------
started(op, doc, can, arg) ==
    [IdleCall EXCEPT !.op = op, !.doc = doc, !.can = can, !.arg = arg]

rejected(c, error, log) ==
    [c EXCEPT !.pc = "done", !.outcome = "rejected", !.error = error, !.log = log]

\* The try block of parse / parseWithVersion up to its await: parser.parse is
\* invoked and the call is suspended on its promise (a parse that throws
\* before returning a promise is caught by the same catch block as a
\* rejection, and is modelled as one)
invokeParse(c, parser, versionInfo, log) ==
    [c EXCEPT !.chosen = parser, !.versionInfo = versionInfo,
              !.log = Append(log, Invoked(parser, "parse")),
              !.pc = "awaiting", !.outcome = "pending"]

\* (variant: parse without the gatekeeper check)
parseUntilAwait_NoGatekeeper(op, regs, vmap, doc, can, canThrown) ==
    LET c == started(op, doc, can, "none")
        best == findBestParser(regs, vmap, doc, can)
    IN  IF best.kind = "threw"
        THEN [rejected(c, escaped(canThrown), best.log)
                 EXCEPT !.threwIn = "canParse", !.thrown = canThrown]
        ELSE IF best.kind = "null"
        THEN rejected(c, ParserRegistryError(
                 <<"No compatible parser found for this document">>,
                 "NO_PARSER_AVAILABLE"), best.log)
        ELSE invokeParse([c EXCEPT !.can = NoCan], best.parser, best.versionInfo, <<>>)

\* The synchronous part of parse(document), as run by op (parse itself or
\* parseAndValidate, which awaits this.parse): gatekeeper, selection, invocation.
\* Once a parser is selected the rest of the call depends on that parser
\* only: the record of the selection (canParse answers and consultations) is
\* kept for the calls that end here and dropped for the one that goes on.
parseUntilAwait(op, regs, vmap, doc, can, canThrown) ==
    LET c == started(op, doc, can, "none")
        best == findBestParser(regs, vmap, doc, can)
    IN  IF ~isRobinhoodDerivativesStatement(doc)
        THEN rejected(c, ParserRegistryError(
                 <<"Document does not appear to be a Robinhood Derivatives statement">>,
                 "NOT_ROBINHOOD_STATEMENT"), <<>>)
        ELSE IF best.kind = "threw"
        THEN [rejected(c, escaped(canThrown), best.log)
                 EXCEPT !.threwIn = "canParse", !.thrown = canThrown]
        ELSE IF best.kind = "null"
        THEN rejected(c, ParserRegistryError(
                 <<"No compatible parser found for this document">>,
                 "NO_PARSER_AVAILABLE"), best.log)
        ELSE invokeParse([c EXCEPT !.can = NoCan], best.parser, best.versionInfo, <<>>)

\* The synchronous part of parseWithVersion(document, parserVersion)
parseWithVersionUntilAwait(regs, doc, can, parserVersion) ==
    LET c == started("parseWithVersion", doc, can, parserVersion)
        parser == getParser(regs, parserVersion)
    IN  IF parser = NoParser
        THEN rejected(c, ParserRegistryError(<<"Parser not found: ", parserVersion>>,
                                             "PARSER_NOT_FOUND"), <<>>)
        ELSE invokeParse(c, parser, detectVersion(doc), <<>>)

\* A direct call of findBestParser(document)
callFindBestParser(doc) ==
    /\ call.pc = "idle"
    /\ \E can \in CanTables(parsers), canThrown \in CanParseThrown :
          LET best == findBestParser(parsers, versionParserMap, doc, can)
              c == started("findBestParser", doc, can, "none")
          IN  call' = [c EXCEPT !.pc = "done", !.outcome = best.kind,
                                !.chosen = best.parser, !.versionInfo = best.versionInfo,
                                !.log = best.log,
                                !.threwIn = IF best.kind = "threw" THEN "canParse" ELSE "none",
                                !.thrown = IF best.kind = "threw" THEN canThrown ELSE NoThrown,
                                !.error = IF best.kind = "threw" THEN escaped(canThrown)
                                          ELSE NoError]
    /\ UNCHANGED <<parsers, versionParserMap, fnCall, db, dbCalls>>

parse(doc) ==
    /\ call.pc = "idle"
    /\ \E can \in CanTables(parsers), canThrown \in CanParseThrown :
          call' = parseUntilAwait("parse", parsers, versionParserMap, doc, can, canThrown)
    /\ UNCHANGED <<parsers, versionParserMap, fnCall, db, dbCalls>>

parseWithVersion(doc, parserVersion) ==
    /\ call.pc = "idle"
    /\ \E can \in AnswersOf(parsers, parserVersion) :
          call' = parseWithVersionUntilAwait(parsers, doc, can, parserVersion)
    /\ UNCHANGED <<parsers, versionParserMap, fnCall, db, dbCalls>>

parseAndValidate(doc) ==
    /\ call.pc = "idle"
    /\ \E can \in CanTables(parsers), canThrown \in CanParseThrown :
          call' = parseUntilAwait("parseAndValidate", parsers, versionParserMap, doc, can,
                                  canThrown)
    /\ UNCHANGED <<parsers, versionParserMap, fnCall, db, dbCalls>>

\* The ParseResult built after `await parser.parse(document)` resolved
parseResult(c, statement) ==
    [statement |-> statement, versionInfo |-> c.versionInfo,
     parserVersion |-> c.chosen.version]

\* The promise of parser.parse settles and parse / parseWithVersion resumes:
\* it returns the ParseResult, or wraps the rejection as PARSE_FAILED.  For
\* parseAndValidate the inner parse has then settled and its own
\* continuation is still to run.  The document is not read after this point:
\* the record keeps versionInfo, the chosen parser and the parse invocation.
resumeAfterParse(c, settled) ==
    LET c2 == [c EXCEPT !.doc = NoDoc, !.can = NoCan]
    IN  IF settled.ok
        THEN [c2 EXCEPT !.statement = settled.statement,
                        !.result = parseResult(c, settled.statement),
                        !.pc = IF c.op = "parseAndValidate" THEN "parsed" ELSE "done",
                        !.outcome = IF c.op = "parseAndValidate" THEN "pending"
                                    ELSE "resolved"]
        ELSE [c2 EXCEPT !.pc = "done", !.outcome = "rejected", !.threwIn = "parse",
                        !.thrown = settled.thrown, !.error = parseFailed(settled.thrown)]

Settlements(version) ==
    {[ok |-> TRUE, statement |-> st, thrown |-> NoThrown] : st \in Statements(version)} \cup
    {[ok |-> FALSE, statement |-> NoStatement, thrown |-> t] : t \in ThrownValues}

parserSettles ==
    /\ call.pc = "awaiting"
    /\ \E settled \in Settlements(call.chosen.version) :
          call' = resumeAfterParse(call, settled)
    /\ UNCHANGED <<parsers, versionParserMap, fnCall, db, dbCalls>>

\* (variant: the entries come out in reverse order)
validationWarnings_Reversed(errors) ==
    [i \in 1..Len(errors) |-> <<"Validation error: ", errors[Len(errors) + 1 - i]>>]

\* `Validation error: ${e}` for every entry of validation.errors
validationWarnings(errors) ==
    [i \in 1..Len(errors) |-> <<"Validation error: ", errors[i]>>]

\* What parser.validate(result.statement) does: returns a ValidationResult or throws
ValidateBehaviours ==
    {[throws |-> FALSE, validation |-> v, value |-> NoThrown] : v \in ValidationResults} \cup
    {[throws |-> TRUE, validation |-> NoValidation, value |-> t] : t \in ThrownValues}

\* parseAndValidate after `await this.parse(document)` resolved
validateAfterParse(c, regs, behaviour) ==
    LET parser == getParser(regs, c.result.parserVersion)
        validation == behaviour.validation
        log2 == Append(c.log, Invoked(parser, "validate"))
    IN  IF parser = NoParser
        THEN rejected(c, ParserRegistryError(
                 <<"Parser not found for validation: ", c.result.parserVersion>>,
                 "PARSER_NOT_FOUND"), c.log)
        ELSE IF behaviour.throws
        THEN [rejected(c, escaped(behaviour.value), log2)
                 EXCEPT !.threwIn = "validate", !.thrown = behaviour.value,
                        !.validator = parser]
        ELSE [c EXCEPT !.pc = "done", !.outcome = "resolved", !.log = log2,
                       !.validator = parser, !.validation = validation,
                       !.result.statement.warnings =
                           IF ~validation.success /\ Len(validation.errors) > 0
                           THEN @ \o validationWarnings(validation.errors)
                           ELSE @]

parseAndValidateResumes ==
    /\ call.pc = "parsed"
    /\ \E behaviour \in ValidateBehaviours :
          call' = validateAfterParse(call, parsers, behaviour)
    /\ UNCHANGED <<parsers, versionParserMap, fnCall, db, dbCalls>>

\* The caller has received the outcome of the call
callReturns ==
    /\ call.pc = "done"
    /\ call' = IdleCall
    /\ UNCHANGED <<parsers, versionParserMap, fnCall, db, dbCalls>>

\* ------------------------------------------------------------------------
\* Specifications
\* ------------------------------------------------------------------------
\* The registry mutations, which any caller may run between two calls and
\* while a call is suspended (the outcome of a completed call is handed to
\* its caller, callReturns, before the next step is observed)
Mutate ==
    /\ call.pc # "done"
    /\ UNCHANGED <<call, fnCall, db, dbCalls>>
    /\
       \/ \E parser \in ParserObjects, priority \in Priorities : register(parser, priority)
       \/ \E version \in ParserIds : unregister(version)
       \/ \E version \in ParserIds, enabled \in BOOLEAN : setEnabled(version, enabled)

\* The whole registry
Next ==
    \/ Mutate
    \/ \E doc \in Docs : callFindBestParser(doc)
    \/ \E doc \in Docs : parse(doc)
    \/ \E doc \in Docs, version \in ParserIds : parseWithVersion(doc, version)
    \/ \E doc \in Docs : parseAndValidate(doc)
    \/ parserSettles
    \/ parseAndValidateResumes
    \/ callReturns

Spec == Init /\ [][Next]_vars

\* ------------------------------------------------------------------------
\* Vocabulary of the properties
\* ------------------------------------------------------------------------
RegisteredIds == {parsers[i].key : i \in 1..Len(parsers)}
EnabledIds == {v \in RegisteredIds : mapGet(parsers, v).enabled}
priorityOf(v) == mapGet(parsers, v).priority

\* the index entry of a statement version, a missing key counting as empty
indexOf(sv) == IF mapHas(versionParserMap, sv) THEN mapGet(versionParserMap, sv) ELSE <<>>

\* the enabled parsers whose canParse(doc) is true for the document of the call
AbleIds == {v \in EnabledIds : call.can[v] = "true"}

RegistryErrorCodes ==
    {"NO_PARSER_AVAILABLE", "PARSER_NOT_FOUND", "PARSE_FAILED", "VALIDATION_FAILED",
     "NOT_ROBINHOOD_STATEMENT"}

rejectedWith(code) ==
    /\ call.pc = "done"
    /\ call.outcome = "rejected"
    /\ call.error.name = "ParserRegistryError"
    /\ call.error.code = code

parseInvocations == SelectSeq(call.log, LAMBDA e : e.method = "parse")

C2_HighestPriorityCanParse ==
    (call.op = "findBestParser" /\ call.pc = "done" /\ AbleIds # {}) =>
        /\ call.outcome = "parser"
        /\ call.chosen.version \in AbleIds
        /\ \A v \in AbleIds : priorityOf(call.chosen.version) >= priorityOf(v)

\* C3: findBestParser returns null if and only if no registered, enabled
\* parser has canParse(doc) true; a parser it returns is registered, enabled
\* and has canParse(doc) true.
C3_NullIffNoneCanParse ==
    (call.op = "findBestParser" /\ call.pc = "done") =>
        /\ (call.outcome = "null") <=> (AbleIds = {})
        /\ (call.outcome = "parser") => (call.chosen.version \in AbleIds)

\* What does hold of findBestParser: whenever it returns, the value is null
\* exactly when no enabled parser can parse, and otherwise a parser of
\* highest priority among those that can; it throws exactly when a canParse
\* it consulted threw, which needs a throwing parser that no parser with
\* canParse true precedes in priority order.
findBestParserWhenItReturns ==
    (call.op = "findBestParser" /\ call.pc = "done") =>
        /\ call.outcome \in {"parser", "null", "threw"}
        /\ call.outcome = "null" => AbleIds = {}
        /\ call.outcome = "parser" =>
              /\ call.chosen.version \in AbleIds
              /\ \A v \in AbleIds : priorityOf(call.chosen.version) >= priorityOf(v)
        /\ call.outcome = "threw" =>
              \E v \in EnabledIds :
                  /\ call.can[v] = "throw"
                  /\ \A w \in AbleIds : priorityOf(w) <= priorityOf(v)
        /\ (\A v \in EnabledIds : call.can[v] # "throw") => call.outcome # "threw"

\* ------------------------------------------------------------------------
\* C4, C5, C6  parse
\* ------------------------------------------------------------------------
\* C4: when the document has no brand token, or has the brand token but
\* neither a domain indicator nor a statement indicator, parse(doc) rejects
\* with a ParserRegistryError of code NOT_ROBINHOOD_STATEMENT and no canParse
\* and no parse of any registered parser has been invoked.
C4_GatekeeperRejectsFirst ==
    (/\ call.op = "parse"
     /\ call.doc \in Docs
     /\ \/ ~call.doc.hasRobinhood
        \/ (call.doc.hasRobinhood /\ ~call.doc.hasDerivatives
                /\ ~call.doc.hasStatementIndicator)) =>
        /\ rejectedWith("NOT_ROBINHOOD_STATEMENT")
        /\ call.log = <<>>

\* parse turned away a document that has the brand token only, although an
\* enabled parser answers canParse with true
C4_Witness ==
    /\ call.op = "parse"
    /\ call.doc \in Docs
    /\ call.doc.hasRobinhood /\ ~call.doc.hasDerivatives /\ ~call.doc.hasStatementIndicator
    /\ rejectedWith("NOT_ROBINHOOD_STATEMENT")
    /\ AbleIds # {}

\* C5: when the gatekeeper passes and no enabled registered parser has
\* canParse(doc) true (the registry may be empty), parse(doc) rejects with
\* NO_PARSER_AVAILABLE and no parser's parse is invoked.
C5_NoParserAvailable ==
    (/\ call.op = "parse"
     /\ call.pc = "done"
     /\ call.doc \in Docs
     /\ isRobinhoodDerivativesStatement(call.doc)
     /\ AbleIds = {}) =>
        /\ rejectedWith("NO_PARSER_AVAILABLE")
        /\ parseInvocations = <<>>

\* What does hold of the selection step of parse: with the gatekeeper passed
\* and no enabled parser answering true, parse rejects with
\* NO_PARSER_AVAILABLE unless a canParse threw, and never invokes a parse.
parseWithoutAbleParser ==
    (/\ call.op = "parse"
     /\ call.pc = "done"
     /\ call.doc \in Docs
     /\ isRobinhoodDerivativesStatement(call.doc)
     /\ AbleIds = {}) =>
        /\ parseInvocations = <<>>
        /\ rejectedWith("NO_PARSER_AVAILABLE") \/ call.threwIn = "canParse"
        /\ (\A v \in EnabledIds : call.can[v] = "false") => rejectedWith("NO_PARSER_AVAILABLE")

\* C6 as stated: whatever the chosen parser's parse throws or rejects with,
\* parse(doc) rejects with PARSE_FAILED and a message that holds the message
\* of what was thrown.
C6_MessageAlwaysPreserved ==
    (call.op = "parse" /\ call.threwIn = "parse") =>
        /\ rejectedWith("PARSE_FAILED")
        /\ \E i \in 1..Len(call.error.message) : call.error.message[i] = call.thrown.message

\* C6 as amended: when the chosen parser's parse throws or rejects, parse(doc)
\* rejects (it never resolves) with a ParserRegistryError of code PARSE_FAILED
\* whose message is "Parse failed: " followed by the original message if the
\* thrown value is an Error instance, and by "Unknown error" otherwise.
C6_ParseFailureWrapped ==
    (call.op = "parse" /\ call.threwIn = "parse") =>
        /\ rejectedWith("PARSE_FAILED")
        /\ call.thrown.isError =>
              call.error.message = <<"Parse failed: ", call.thrown.message>>
        /\ ~call.thrown.isError =>
              call.error.message = <<"Parse failed: ", "Unknown error">>

\* the chosen parser rejected with the Error "m2" and parse wrapped it
C6_Witness ==
    /\ call.op = "parse"
    /\ call.threwIn = "parse"
    /\ call.thrown = [isError |-> TRUE, message |-> "m2"]
    /\ call.log = <<Invoked(call.chosen, "parse")>>
    /\ rejectedWith("PARSE_FAILED")

\* ------------------------------------------------------------------------
\* C7  The error surface
\* ------------------------------------------------------------------------
\* C7: every rejection of parse, parseWithVersion and parseAndValidate is a
\* ParserRegistryError carrying one of the five codes, whatever the
\* registered parsers do (a canParse or a validate that throws included).
C7_OnlyTaggedErrors ==
    (/\ call.op \in {"parse", "parseWithVersion", "parseAndValidate"}
     /\ call.pc = "done"
     /\ call.outcome = "rejected") =>
        /\ call.error.name = "ParserRegistryError"
        /\ call.error.code \in RegistryErrorCodes

\* What does hold of the error surface: a rejection that is not a
\* ParserRegistryError is the exception of a canParse or of a validate
untaggedOnlyFromCanParseOrValidate ==
    (/\ call.op \in {"parse", "parseWithVersion", "parseAndValidate"}
     /\ call.pc = "done"
     /\ call.outcome = "rejected") =>
        \/ call.error.name = "ParserRegistryError" /\ call.error.code \in RegistryErrorCodes
        \/ call.threwIn \in {"canParse", "validate"} /\ call.error = escaped(call.thrown)

\* ------------------------------------------------------------------------
\* C8, C9  parseWithVersion
\* ------------------------------------------------------------------------
notFound == rejectedWith("PARSER_NOT_FOUND")

\* C8: parseWithVersion(doc, v) rejects with PARSER_NOT_FOUND, having invoked
\* no parser, if and only if v is not registered or is disabled when it is
\* called; otherwise it invokes the parse of the parser registered under v
\* and nothing else, whatever that parser's canParse answers, whatever its
\* priority and whatever version is detected for the document.
C8_ExactlyTheNamedParser ==
    /\ [](call.op = "parseWithVersion" =>
            IF notFound
            THEN call.log = <<>>
            ELSE /\ call.chosen.version = call.arg
                 /\ call.log = <<Invoked([version |-> call.arg], "parse")>>)
    /\ [][(call.pc = "idle" /\ call'.op = "parseWithVersion") =>
             (notFound' <=> call'.arg \notin EnabledIds)]_vars

\* parseWithVersion has invoked the named parser although that parser answers
\* canParse with false for the document, another enabled parser has a higher
\* priority, and the version detection fell back to its default
C8_Witness ==
    /\ call.op = "parseWithVersion"
    /\ call.pc = "awaiting"
    /\ call.can[call.arg] = "false"
    /\ call.versionInfo.method = "fallback"
    /\ call.log = <<Invoked([version |-> call.arg], "parse")>>
    /\ \E v \in EnabledIds : v # call.arg /\ priorityOf(v) > priorityOf(call.arg)

\* C9: for a document that fails the gatekeeper check, parseWithVersion(doc, v)
\* with a registered and enabled v rejects with NOT_ROBINHOOD_STATEMENT and
\* does not invoke the parser's parse.
C9_GatekeeperInParseWithVersion ==
    (/\ call.op = "parseWithVersion"
     /\ call.doc \in Docs
     /\ ~isRobinhoodDerivativesStatement(call.doc)
     /\ ~notFound) =>
        /\ rejectedWith("NOT_ROBINHOOD_STATEMENT")
        /\ parseInvocations = <<>>

\* ------------------------------------------------------------------------
\* C10  parseAndValidate
\* ------------------------------------------------------------------------
validated == call.op = "parseAndValidate" /\ call.pc = "done" /\ call.outcome = "resolved"

\* the statement the parser resolved with, with one string per entry of
\* errors appended to its warnings
withValidationErrors(errors) ==
    [call.statement EXCEPT
        !.warnings = @ \o [i \in 1..Len(errors) |-> <<"Validation error: ", errors[i]>>]]

\* C10 as stated: for every ValidationResult that validate returns, whatever
\* its success flag, the result of parseAndValidate is the parsed statement
\* with one string per entry of validation.errors appended, in order, to the
\* end of its warnings, everything else unchanged.
C10_ErrorsAlwaysAppended ==
    validated =>
        /\ call.result.statement = withValidationErrors(call.validation.errors)
        /\ call.result.versionInfo = call.versionInfo
        /\ call.result.parserVersion = call.chosen.version

\* C10 as amended: when validate returns a ValidationResult whose success
\* flag is false, the result is the parsed statement with one string per
\* entry of validation.errors appended, in order, to the end of its warnings;
\* when the flag is true, or errors is empty, the statement is the parsed one
\* unchanged.  The other fields of the result are unchanged in both cases.
C10_ErrorsAppendedOnFailure ==
    validated =>
        /\ ~call.validation.success =>
              call.result.statement = withValidationErrors(call.validation.errors)
        /\ (call.validation.success \/ call.validation.errors = <<>>) =>
              call.result.statement = call.statement
        /\ call.result.versionInfo = call.versionInfo
        /\ call.result.parserVersion = call.chosen.version

\* a failed validation with two errors was appended after a warning the
\* parser had produced itself
C10_Witness ==
    /\ validated
    /\ ~call.validation.success
    /\ call.validation.errors = <<"e1", "e2">>
    /\ call.statement.warnings # <<>>
    /\ Len(call.result.statement.warnings) = Len(call.statement.warnings) + 2

\* ------------------------------------------------------------------------
\* C11  parseAndValidate while the registry changes
\* ------------------------------------------------------------------------
\* the parse(doc) that parseAndValidate awaits has resolved
parseSucceeded == call.op = "parseAndValidate" /\ call.result # NoResult

\* C11: whenever the underlying parse(doc) succeeds, parseAndValidate
\* resolves with that parse result and the validation outcome and never
\* rejects, for every validation outcome and whatever register / unregister /
\* setEnabled calls ran while the chosen parser's parse was suspended
\* (a validate that throws yields no validation outcome and is left aside).
C11_ParseSuccessIsAuthoritative ==
    (parseSucceeded /\ call.pc = "done" /\ call.threwIn # "validate") =>
        /\ call.outcome = "resolved"
        /\ call.result.parserVersion = call.chosen.version
        /\ call.validator = call.chosen

\* What does hold: after a successful parse, parseAndValidate rejects only
\* with PARSER_NOT_FOUND, when the chosen parser is no longer registered and
\* enabled as the call resumes, or with what validate threw; otherwise it
\* resolves with the parse result and the ValidationResult.
parseAndValidateAfterSuccess ==
    (parseSucceeded /\ call.pc = "done") =>
        IF call.chosen.version \notin EnabledIds
        THEN notFound /\ ~(\E i \in 1..Len(call.log) : call.log[i].method = "validate")
        ELSE IF call.threwIn = "validate"
        THEN call.outcome = "rejected" /\ call.error = escaped(call.thrown)
        ELSE call.outcome = "resolved" /\ call.validator = call.chosen

\* ========================================================================
\* Text layer: extracted documents, patterns, section detection
\* ========================================================================
\* A text is written as the list of its words, already case-folded (all the
\* patterns below carry the i flag); \s+ in a pattern is a word boundary.
\* A pattern is a list of word alternatives (Confirmations? is the
\* alternative of Confirmation and Confirmations), anchored at the start of
\* the text (^) or not.
Pattern(anchored, alternatives) ==
    [anchored |-> anchored, whole |-> FALSE, alternatives |-> alternatives]

\* a pattern anchored at both ends (^ and $)
WholePattern(alternatives) ==
    [anchored |-> TRUE, whole |-> TRUE, alternatives |-> alternatives]

matchesAt(pattern, text, i) ==
    /\ i + Len(pattern.alternatives) - 1 <= Len(text)
    /\ \A j \in 1..Len(pattern.alternatives) : text[i + j - 1] \in pattern.alternatives[j]

\* pattern.test(text)
test(pattern, text) ==
    IF pattern.whole
    THEN Len(text) = Len(pattern.alternatives) /\ matchesAt(pattern, text, 1)
    ELSE IF pattern.anchored
    THEN matchesAt(pattern, text, 1)
    ELSE \E i \in 1..Len(text) : matchesAt(pattern, text, i)

\* TextItem: text and pageNumber (the geometry is read by the column layer)
TextItem(text, pageNumber) == [text |-> text, pageNumber |-> pageNumber]

\* ExtractedPage: its items; ExtractedDocument: its pages
RECURSIVE flattenFrom(_, _)
flattenFrom(pages, p) ==
    IF p > Len(pages) THEN <<>> ELSE pages[p].items \o flattenFrom(pages, p + 1)

flattenDocument(document) == flattenFrom(document.pages, 1)

\* allItems.map(item => item.text).join(" ")
RECURSIVE joinTexts(_, _)
joinTexts(items, i) ==
    IF i > Len(items) THEN <<>> ELSE items[i].text \o joinTexts(items, i + 1)

fullTextOf(document) == joinTexts(flattenDocument(document), 1)

\* SECTION_PATTERNS in registration order (Object.entries order); the
\* pattern of unknown, /^$/, matches the empty text only
SectionTypes ==
    <<"header", "trades", "activity", "purchase_sale", "journal", "open_positions",
      "account_summary", "unknown">>

SECTION_PATTERNS ==
    [ header          |-> Pattern(TRUE,  <<{"robinhood"}, {"derivatives"}>>),
      trades          |-> Pattern(FALSE, <<{"monthly"}, {"trade"}, {"confirmation", "confirmations"}>>),
      activity        |-> Pattern(FALSE, <<{"account"}, {"activity"}>>),
      purchase_sale   |-> Pattern(FALSE, <<{"purchase"}, {"and"}, {"sale"}>>),
      journal         |-> Pattern(FALSE, <<{"journal"}, {"entries"}>>),
      open_positions  |-> Pattern(FALSE, <<{"open"}, {"position", "positions"}>>),
      account_summary |-> Pattern(FALSE, <<{"account"}, {"summary"}>>),
      unknown         |-> WholePattern(<<>>) ]

\* (variant: the last matching pattern wins)
RECURSIVE detectSectionTypeFrom_LastWins(_, _)
detectSectionTypeFrom_LastWins(text, k) ==
    IF k < 1 THEN "unknown"
    ELSE IF SectionTypes[k] # "unknown" /\ test(SECTION_PATTERNS[SectionTypes[k]], text)
    THEN SectionTypes[k]
    ELSE detectSectionTypeFrom_LastWins(text, k - 1)

RECURSIVE detectSectionTypeFrom(_, _)
detectSectionTypeFrom(text, k) ==
    IF k > Len(SectionTypes) THEN "unknown"
    ELSE IF SectionTypes[k] # "unknown" /\ test(SECTION_PATTERNS[SectionTypes[k]], text)
    THEN SectionTypes[k]
    ELSE detectSectionTypeFrom(text, k + 1)

detectSectionType_LastWins(text) == detectSectionTypeFrom_LastWins(text, Len(SectionTypes))

detectSectionType(text) == detectSectionTypeFrom(text, 1)

isSectionHeader(text) == detectSectionType(text) # "unknown"

\* (variant: the slice starts one item late)
slice_SkipsFirst(items, from, to) == SubSeq(items, from + 2, to)

\* allItems.slice(from, to), with the 0-based indexes of the source
slice(items, from, to) == SubSeq(items, from + 1, to)

NoSection == [type |-> "none"]

\* (variant: the section ends on the page of the item that follows it)
closeSection_EndsOnNextPage(allItems, current, i, fallbackPage) ==
    [ type |-> current.type, headerText |-> current.headerText,
      startIndex |-> current.startIndex, startPage |-> current.startPage,
      endIndex |-> i,
      endPage |-> IF i < Len(allItems) THEN allItems[i + 1].pageNumber ELSE fallbackPage,
      items |-> slice(allItems, current.startIndex, i) ]

\* the currently open section, closed at index i (0-based, exclusive)
closeSection(allItems, current, i, fallbackPage) ==
    [ type |-> current.type, headerText |-> current.headerText,
      startIndex |-> current.startIndex, startPage |-> current.startPage,
      endIndex |-> i,
      endPage |-> IF i >= 1 THEN allItems[i].pageNumber ELSE fallbackPage,
      items |-> slice(allItems, current.startIndex, i) ]

\* The loop of detectSections at 0-based index i, with the sections pushed so
\* far and the open section
RECURSIVE detectSectionsFrom(_, _, _, _)
detectSectionsFrom(allItems, i, sections, current) ==
    IF i >= Len(allItems)
    THEN IF current # NoSection
         THEN Append(sections, closeSection(allItems, current, Len(allItems), 1))
         ELSE sections
    ELSE LET item == allItems[i + 1]
             sectionType == detectSectionType(item.text)
         IN  IF sectionType # "unknown"
             THEN detectSectionsFrom(allItems, i + 1,
                      IF current # NoSection
                      THEN Append(sections,
                                  closeSection(allItems, current, i, current.startPage))
                      ELSE sections,
                      [type |-> sectionType, headerText |-> item.text,
                       startIndex |-> i, startPage |-> item.pageNumber])
             ELSE detectSectionsFrom(allItems, i + 1, sections, current)

detectSections(document) == detectSectionsFrom(flattenDocument(document), 0, <<>>, NoSection)

\* ========================================================================
\* Dates
\* ========================================================================
\* parseInt of the numerals that occur in the documents of the model
parseInt ==
    [ w \in {"1", "01", "05", "06", "07", "12", "15", "31", "2023", "2024", "2025"} |->
        CASE w \in {"1", "01"} -> 1
          [] w = "05" -> 5
          [] w = "06" -> 6
          [] w = "07" -> 7
          [] w = "12" -> 12
          [] w = "15" -> 15
          [] w = "31" -> 31
          [] w = "2023" -> 2023
          [] w = "2024" -> 2024
          [] w = "2025" -> 2025 ]

\* \d{1,2} and \d{4}
DayNumerals == {"1", "01", "05", "06", "07", "12", "15", "31"}
YearNumerals == {"2023", "2024", "2025"}

\* s.padStart(2, "0")
padStart2 == [w \in DayNumerals |-> IF w = "1" THEN "01" ELSE w]

\* The words [A-Za-z]+ that occur before a day numeral, with the three
\* letters that /([A-Za-z]{3})\s+(\d{1,2}),?\s+(\d{4})/ captures from them:
\* the last three, the pattern not being anchored
lastThreeLetters ==
    [ w \in {"jan", "january", "may", "jun", "june", "jul", "dec"} |->
        CASE w = "january" -> "ary"
          [] w = "june" -> "une"
          [] OTHER -> w ]

monthNames ==
    [ jan |-> "01", feb |-> "02", mar |-> "03", apr |-> "04", may |-> "05", jun |-> "06",
      jul |-> "07", aug |-> "08", sep |-> "09", oct |-> "10", nov |-> "11", dec |-> "12" ]

\* A date string YYYY-MM-DD, written as its three numerals; null is NoDate
IsoDate(year, month, day) == [year |-> year, month |-> month, day |-> day]
NoDate == [year |-> "none", month |-> "none", day |-> "none"]

\* M/D/YYYY written as one word: its three numerals
slashDates ==
    [ w \in {"05/01/2024", "06/01/2024", "12/31/2023"} |->
        CASE w = "05/01/2024" -> [month |-> "05", day |-> "01", year |-> "2024"]
          [] w = "06/01/2024" -> [month |-> "06", day |-> "01", year |-> "2024"]
          [] w = "12/31/2023" -> [month |-> "12", day |-> "31", year |-> "2023"] ]

\* parseDate of a text M/D/YYYY
parseDateSlash(w) ==
    IsoDate(slashDates[w].year, padStart2[slashDates[w].month], padStart2[slashDates[w].day])

\* parseDate of a text "<word> <day>, <year>"
parseDateWords(word, day, year) ==
    LET monthStr == lastThreeLetters[word]
    IN  IF monthStr \in DOMAIN monthNames
        THEN IsoDate(year, monthNames[monthStr], padStart2[day])
        ELSE NoDate

\* periodMatch and rangeMatch of extractStatementDate on one text, at one place
periodMatchAt(text, i) ==
    /\ i + 4 <= Len(text)
    /\ text[i] = "statement" /\ text[i + 1] = "period"
    /\ text[i + 2] \in DOMAIN lastThreeLetters
    /\ text[i + 3] \in DayNumerals
    /\ text[i + 4] \in YearNumerals

rangeMatchAt(text, i) ==
    /\ i + 2 <= Len(text)
    /\ text[i] \in DOMAIN slashDates /\ text[i + 1] = "-" /\ text[i + 2] \in DOMAIN slashDates

\* text.match(...): the place of the first match, 0 for null
firstPeriodMatch(text) ==
    IF \E i \in 1..Len(text) : periodMatchAt(text, i)
    THEN CHOOSE i \in 1..Len(text) :
            periodMatchAt(text, i) /\ \A j \in 1..(i - 1) : ~periodMatchAt(text, j)
    ELSE 0

firstRangeMatch(text) ==
    IF \E i \in 1..Len(text) : rangeMatchAt(text, i)
    THEN CHOOSE i \in 1..Len(text) :
            rangeMatchAt(text, i) /\ \A j \in 1..(i - 1) : ~rangeMatchAt(text, j)
    ELSE 0

\* extractStatementDate(items): the first item with a period or a range
\* decides, also when its date does not parse
RECURSIVE extractStatementDateFrom(_, _)
extractStatementDateFrom(items, k) ==
    IF k > Len(items) THEN NoDate
    ELSE LET text == items[k].text
             p == firstPeriodMatch(text)
             r == firstRangeMatch(text)
         IN  IF p > 0 THEN parseDateWords(text[p + 2], text[p + 3], text[p + 4])
             ELSE IF r > 0 THEN parseDateSlash(text[r + 2])
             ELSE extractStatementDateFrom(items, k + 1)

extractStatementDate(items) == extractStatementDateFrom(items, 1)

\* The day count of a calendar day, from the start of year 1; a day past the
\* end of its month runs over into the next month, as in Date
isLeapYear(y) == (y % 4 = 0 /\ y % 100 # 0) \/ y % 400 = 0
daysInMonth(y, m) ==
    IF m = 2 THEN (IF isLeapYear(y) THEN 29 ELSE 28)
    ELSE IF m \in {4, 6, 9, 11} THEN 30 ELSE 31

RECURSIVE daysBeforeMonth(_, _)
daysBeforeMonth(y, m) ==
    IF m <= 1 THEN 0 ELSE daysBeforeMonth(y, m - 1) + daysInMonth(y, m - 1)

daysBeforeYear(y) == 365 * (y - 1) + ((y - 1) \div 4) - ((y - 1) \div 100) + ((y - 1) \div 400)

dayNumber(y, m, d) == daysBeforeYear(y) + daysBeforeMonth(y, m) + d

\* Date values, in hours.  new Date("YYYY-MM-DD") is midnight UTC of that
\* day; new Date(year, monthIndex, day) is midnight of that day in the local
\* time zone, utcOffset hours ahead of UTC
dateFromIsoString(date) ==
    24 * dayNumber(parseInt[date.year], parseInt[date.month], parseInt[date.day])

dateFromLocalFields(year, monthIndex, day, utcOffset) ==
    24 * dayNumber(year, monthIndex + 1, day) - utcOffset

\* parseStatementDateToDate(dateStr), for the place it runs in
parseStatementDateToDate(dateStr, utcOffset) ==
    dateFromLocalFields(parseInt[dateStr.year], parseInt[dateStr.month] - 1,
                        parseInt[dateStr.day], utcOffset)

\* ========================================================================
\* Version detector
\* ========================================================================
\* STATEMENT_FORMAT_VERSIONS, in key order: effective date and version
STATEMENT_FORMAT_VERSIONS ==
    << [date |-> IsoDate("2024", "01", "01"), version |-> "v1.0"],
       [date |-> IsoDate("2024", "06", "01"), version |-> "v1.1"] >>

\* the time zones a process can run in, as hours ahead of UTC
UtcOffsets == {0 - 5, 0, 1}

\* Object.keys(STATEMENT_FORMAT_VERSIONS).sort((a, b) => new Date(b) - new Date(a))
RECURSIVE insertByDateDescending(_, _)
insertByDateDescending(sorted, e) ==
    IF sorted = <<>> THEN <<e>>
    ELSE IF dateFromIsoString(e.date) > dateFromIsoString(Head(sorted).date)
    THEN <<e>> \o sorted
    ELSE <<Head(sorted)>> \o insertByDateDescending(Tail(sorted), e)

RECURSIVE sortByDateDescending(_, _, _)
sortByDateDescending(entries, i, sorted) ==
    IF i > Len(entries) THEN sorted
    ELSE sortByDateDescending(entries, i + 1, insertByDateDescending(sorted, entries[i]))

sortedDates == sortByDateDescending(STATEMENT_FORMAT_VERSIONS, 1, <<>>)

\* the loop of getVersionByDate over sortedDates
RECURSIVE firstVersionNotAfter(_, _)
firstVersionNotAfter(date, k) ==
    IF k > Len(sortedDates) THEN "v1.0"
    ELSE IF date >= dateFromIsoString(sortedDates[k].date) THEN sortedDates[k].version
    ELSE firstVersionNotAfter(date, k + 1)

\* getVersionByDate(dateStr) for a date string YYYY-MM-DD (every string that
\* parseDate returns is one, so parseStatementDateToDate does not return null)
getVersionByDate(dateStr, utcOffset) ==
    firstVersionNotAfter(parseStatementDateToDate(dateStr, utcOffset), 1)

\* ------------------------------------------------------------------------
\* Specification: getVersionByDate applied to a date string
\* ------------------------------------------------------------------------
IsoDates ==
    { IsoDate(y, m, d) : y \in YearNumerals, m \in {"01", "05", "06", "07", "12"},
                         d \in {"01", "15", "31"} }

InitVersionByDate ==
    /\ parsers = <<>>
    /\ versionParserMap = <<>>
    /\ call = IdleCall
    /\ db = NoDatabase
    /\ dbCalls = NoDbCalls
    /\ \E dateStr \in IsoDates, utcOffset \in UtcOffsets :
          fnCall = [fn |-> "getVersionByDate", pc |-> "called",
                    arg |-> [dateStr |-> dateStr, utcOffset |-> utcOffset], ret |-> <<>>]

getVersionByDateReturns ==
    /\ fnCall.fn = "getVersionByDate"
    /\ fnCall.pc = "called"
    /\ fnCall' = [fnCall EXCEPT !.pc = "returned",
                                !.ret = getVersionByDate(fnCall.arg.dateStr, fnCall.arg.utcOffset)]
    /\ UNCHANGED <<parsers, versionParserMap, call, db, dbCalls>>

NextVersionByDate == getVersionByDateReturns

SpecVersionByDate == InitVersionByDate /\ [][NextVersionByDate]_vars

\* ------------------------------------------------------------------------
\* C13  The date method
\* ------------------------------------------------------------------------
\* calendar order of two date strings
notAfter(a, b) ==
    dayNumber(parseInt[a.year], parseInt[a.month], parseInt[a.day])
        <= dayNumber(parseInt[b.year], parseInt[b.month], parseInt[b.day])

\* the known version with the latest effective date that is <= d, and the
\* earliest version when d precedes every effective date
latestVersionNotAfter(d) ==
    IF \E k \in 1..Len(STATEMENT_FORMAT_VERSIONS) : notAfter(STATEMENT_FORMAT_VERSIONS[k].date, d)
    THEN LET k == CHOOSE k \in 1..Len(STATEMENT_FORMAT_VERSIONS) :
                     /\ notAfter(STATEMENT_FORMAT_VERSIONS[k].date, d)
                     /\ \A j \in 1..Len(STATEMENT_FORMAT_VERSIONS) :
                           notAfter(STATEMENT_FORMAT_VERSIONS[j].date, d) =>
                               notAfter(STATEMENT_FORMAT_VERSIONS[j].date,
                                        STATEMENT_FORMAT_VERSIONS[k].date)
         IN  STATEMENT_FORMAT_VERSIONS[k].version
    ELSE "v1.0"

versionByDateReturned == fnCall.fn = "getVersionByDate" /\ fnCall.pc = "returned"

\* C13: for every statement date d, the date method resolves to the known
\* version with the latest effective date <= d, a date equal to an effective
\* date counting as <= (2024-06-01 resolves to v1.1), and to v1.0 when d
\* precedes every effective date; 2024-01-15 resolves to v1.0 and 2024-07-01
\* to v1.1.
C13_LatestVersionNotAfterDate ==
    versionByDateReturned => fnCall.ret = latestVersionNotAfter(fnCall.arg.dateStr)

\* What does hold: the same for a process whose time zone is not ahead of
\* UTC, and in every time zone for a date that is not an effective date
versionByDateWestOfUtc ==
    (/\ versionByDateReturned
     /\ \/ fnCall.arg.utcOffset <= 0
        \/ \A k \in 1..Len(STATEMENT_FORMAT_VERSIONS) :
              fnCall.arg.dateStr # STATEMENT_FORMAT_VERSIONS[k].date) =>
        fnCall.ret = latestVersionNotAfter(fnCall.arg.dateStr)

\* VERSION_CHARACTERISTICS, in key order (optionalPatterns are not read)
VERSION_CHARACTERISTICS ==
    << [ version |-> "v1.0",
         sectionCount |-> <<6, 10>>,
         requiredPatterns |->
             << Pattern(FALSE, <<{"monthly"}, {"trade"}, {"confirmation", "confirmations"}>>),
                Pattern(FALSE, <<{"account"}, {"activity"}>>),
                Pattern(FALSE, <<{"purchase"}, {"and"}, {"sale"}>>) >>,
         distinguishingText |->
             << Pattern(FALSE, <<{"robinhood"}, {"derivatives"}>>) >> ],
       [ version |-> "v1.1",
         sectionCount |-> <<7, 12>>,
         requiredPatterns |->
             << Pattern(FALSE, <<{"monthly"}, {"trade"}, {"confirmation", "confirmations"}>>),
                Pattern(FALSE, <<{"account"}, {"activity"}>>),
                Pattern(FALSE, <<{"purchase"}, {"and"}, {"sale"}>>) >>,
         distinguishingText |->
             << Pattern(FALSE, <<{"robinhood"}, {"derivatives"}>>),
                Pattern(FALSE, <<{"tax"}, {"withholding"}>>) >> ] >>

\* patterns.filter((pattern) => pattern.test(fullText)).length
countFound(patterns, fullText) ==
    Cardinality({k \in 1..Len(patterns) : test(patterns[k], fullText)})

\* Scores are counted in sixths of a point (100 points are 600), which keeps
\* (found / patterns.length) * 40 exact for the pattern lists above;
\* confidences are counted in 1/3000 (0.95 is 2850, score / 100 * 0.8 is
\* four times the score in sixths).
\* (variant: the section count earns its points in every case)
structureScore_CountAlwaysEarns(characteristics, sectionCount, fullText) ==
    120
    + (countFound(characteristics.requiredPatterns, fullText) * 240)
          \div Len(characteristics.requiredPatterns)
    + (countFound(characteristics.distinguishingText, fullText) * 240)
          \div Len(characteristics.distinguishingText)

structureScore(characteristics, sectionCount, fullText) ==
    (IF /\ sectionCount >= characteristics.sectionCount[1]
        /\ sectionCount <= characteristics.sectionCount[2]
     THEN 120 ELSE 0)
    + (countFound(characteristics.requiredPatterns, fullText) * 240)
          \div Len(characteristics.requiredPatterns)
    + (countFound(characteristics.distinguishingText, fullText) * 240)
          \div Len(characteristics.distinguishingText)

NoMatch == [version |-> "none", score |-> 0]

\* the loop of detectVersionByStructure over VERSION_CHARACTERISTICS
RECURSIVE bestMatchFrom(_, _, _, _)
bestMatchFrom(k, sectionCount, fullText, bestMatch) ==
    IF k > Len(VERSION_CHARACTERISTICS) THEN bestMatch
    ELSE LET score == structureScore(VERSION_CHARACTERISTICS[k], sectionCount, fullText)
         IN  bestMatchFrom(k + 1, sectionCount, fullText,
                 IF bestMatch = NoMatch \/ score > bestMatch.score
                 THEN [version |-> VERSION_CHARACTERISTICS[k].version, score |-> score]
                 ELSE bestMatch)

NoStructureResult == [version |-> "none", confidence |-> 0]

\* (variant: the best match is returned whatever its score)
detectVersionByStructure_NoThreshold(document) ==
    LET bestMatch == bestMatchFrom(1, Len(detectSections(document)), fullTextOf(document),
                                   NoMatch)
    IN  [version |-> bestMatch.version, confidence |-> bestMatch.score * 5]

\* detectVersionByStructure(document): version and confidence (in 1/3000), or null
detectVersionByStructure(document) ==
    LET bestMatch == bestMatchFrom(1, Len(detectSections(document)), fullTextOf(document),
                                   NoMatch)
    IN  IF bestMatch # NoMatch /\ bestMatch.score >= 300
        THEN [version |-> bestMatch.version, confidence |-> bestMatch.score * 5]
        ELSE NoStructureResult

\* The three tests of isRobinhoodDerivativesStatement on the full text
gatekeeperTests(document) ==
    LET fullText == fullTextOf(document)
    IN  [ hasRobinhood |-> test(Pattern(FALSE, <<{"robinhood"}>>), fullText),
          hasDerivatives |->
              \/ test(Pattern(FALSE, <<{"derivatives"}>>), fullText)
              \/ test(Pattern(FALSE, <<{"event"}, {"contract", "contracts"}>>), fullText)
              \/ test(Pattern(FALSE, <<{"prediction"}, {"market", "markets"}>>), fullText),
          hasStatementIndicator |->
              \/ test(Pattern(FALSE, <<{"statement"}>>), fullText)
              \/ test(Pattern(FALSE, <<{"account"}, {"activity"}>>), fullText)
              \/ test(Pattern(FALSE, <<{"trade"}, {"confirmation", "confirmations"}>>), fullText) ]

VersionDetectionResult(version, confidence, statementDate, method) ==
    [version |-> version, confidence |-> confidence, statementDate |-> statementDate,
     method |-> method]

\* (variant: the structure analysis is tried before the statement date)
detectVersionOf_StructureFirst(document, utcOffset) ==
    LET statementDate == extractStatementDate(flattenDocument(document))
        structureResult == detectVersionByStructure(document)
    IN  IF ~isRobinhoodDerivativesStatement(gatekeeperTests(document))
        THEN VersionDetectionResult("v1.0", 0, NoDate, "fallback")
        ELSE IF structureResult # NoStructureResult
        THEN VersionDetectionResult(structureResult.version,
                                    (structureResult.confidence * 8) \div 10,
                                    statementDate, "structure")
        ELSE IF statementDate # NoDate
        THEN VersionDetectionResult(getVersionByDate(statementDate, utcOffset), 2850,
                                    statementDate, "date")
        ELSE VersionDetectionResult("v1.0", 1500, statementDate, "fallback")

\* detectVersion(document), on the text of the document, in a process
\* utcOffset hours ahead of UTC
detectVersionOf(document, utcOffset) ==
    LET statementDate == extractStatementDate(flattenDocument(document))
        structureResult == detectVersionByStructure(document)
    IN  IF ~isRobinhoodDerivativesStatement(gatekeeperTests(document))
        THEN VersionDetectionResult("v1.0", 0, NoDate, "fallback")
        ELSE IF statementDate # NoDate
        THEN VersionDetectionResult(getVersionByDate(statementDate, utcOffset), 2850,
                                    statementDate, "date")
        ELSE IF structureResult # NoStructureResult
        THEN VersionDetectionResult(structureResult.version,
                                    (structureResult.confidence * 8) \div 10,
                                    statementDate, "structure")
        ELSE IF test(Pattern(FALSE, <<{"tax"}, {"withholding"}>>), fullTextOf(document))
        THEN VersionDetectionResult("v1.1", 1800, statementDate, "heuristic")
        ELSE VersionDetectionResult("v1.0", 1500, statementDate, "fallback")

\* ------------------------------------------------------------------------
\* Specification: detectVersion / detectVersionByStructure applied to a document
\* ------------------------------------------------------------------------
\* most text items on the first page of a document
MaxItems == 3

\* The texts of the first page: brand with and without the domain word,
\* section headers (one matching two patterns), the v1.1 phrase, a statement
\* period with a short and with a full month name, a date range
DetectorTexts ==
    { <<"robinhood", "derivatives">>,
      <<"robinhood">>,
      <<"account", "activity", "purchase", "and", "sale">>,
      <<"monthly", "trade", "confirmations">>,
      <<"tax", "withholding">>,
      <<"statement", "period", "jun", "1", "2024">>,
      <<"statement", "period", "june", "1", "2024">>,
      <<"05/01/2024", "-", "06/01/2024">> }

\* how many further section headers the second page holds
SectionFills == {0, 6, 11}

ExtractedPage(items) == [items |-> items]
ExtractedDocument(pages) == [pages |-> pages]

\* A document: one page holding the given texts, and a second page of
\* section headers where there are any
DetectorDocument(texts, fill) ==
    ExtractedDocument(
        <<ExtractedPage([i \in 1..Len(texts) |-> TextItem(texts[i], 1)])>> \o
        (IF fill = 0 THEN <<>>
         ELSE <<ExtractedPage([i \in 1..fill |-> TextItem(<<"account", "summary">>, 2)])>>))

\* The call made: detectVersion or detectVersionByStructure on a document
detectorCall(document) ==
    \/ \E utcOffset \in UtcOffsets :
          fnCall = [fn |-> "detectVersion", pc |-> "called",
                    arg |-> [document |-> document, utcOffset |-> utcOffset],
                    ret |-> <<>>]
    \/ fnCall = [fn |-> "detectVersionByStructure", pc |-> "called",
                 arg |-> [document |-> document, utcOffset |-> 0], ret |-> <<>>]

\* Documents: no page, or a first page of up to MaxItems texts
InitDetectVersion ==
    /\ parsers = <<>>
    /\ versionParserMap = <<>>
    /\ call = IdleCall
    /\ db = NoDatabase
    /\ dbCalls = NoDbCalls
    /\ \/ detectorCall(ExtractedDocument(<<>>))
       \/ \E n \in 0..MaxItems :
             \E texts \in [1..n -> DetectorTexts], fill \in SectionFills :
                detectorCall(DetectorDocument(texts, fill))

detectVersionReturns ==
    /\ fnCall.fn = "detectVersion"
    /\ fnCall.pc = "called"
    /\ fnCall' = [fnCall EXCEPT !.pc = "returned",
                                !.ret = detectVersionOf(fnCall.arg.document,
                                                        fnCall.arg.utcOffset)]
    /\ UNCHANGED <<parsers, versionParserMap, call, db, dbCalls>>

detectVersionByStructureReturns ==
    /\ fnCall.fn = "detectVersionByStructure"
    /\ fnCall.pc = "called"
    /\ fnCall' = [fnCall EXCEPT !.pc = "returned",
                                !.ret = detectVersionByStructure(fnCall.arg.document)]
    /\ UNCHANGED <<parsers, versionParserMap, call, db, dbCalls>>

NextDetectVersion ==
    \/ detectVersionReturns
    \/ detectVersionByStructureReturns

SpecDetectVersion == InitDetectVersion /\ [][NextDetectVersion]_vars

\* ------------------------------------------------------------------------
\* C12  The gatekeeper of detectVersion
\* ------------------------------------------------------------------------
versionDetected == fnCall.fn = "detectVersion" /\ fnCall.pc = "returned"

\* a word occurs in the text of the document
hasWord(document, words) ==
    LET fullText == fullTextOf(document)
    IN  \E i \in 1..Len(fullText) : fullText[i] \in words

brandToken(document) == hasWord(document, {"robinhood"})
domainIndicator(document) ==
    LET fullText == fullTextOf(document)
    IN  \/ \E i \in 1..Len(fullText) : fullText[i] = "derivatives"
        \/ test(Pattern(FALSE, <<{"event"}, {"contract", "contracts"}>>), fullText)
        \/ test(Pattern(FALSE, <<{"prediction"}, {"market", "markets"}>>), fullText)
statementIndicator(document) ==
    LET fullText == fullTextOf(document)
    IN  \/ \E i \in 1..Len(fullText) : fullText[i] = "statement"
        \/ test(Pattern(FALSE, <<{"account"}, {"activity"}>>), fullText)
        \/ test(Pattern(FALSE, <<{"trade"}, {"confirmation", "confirmations"}>>), fullText)

\* C12: for every document without the brand token, or with the brand token
\* but neither a domain indicator nor a statement indicator, detectVersion
\* returns version v1.0, confidence 0, method fallback and no statement date,
\* whatever dates, section headers and version phrases the document holds.
C12_GatekeeperFallback ==
    (/\ versionDetected
     /\ \/ ~brandToken(fnCall.arg.document)
        \/ /\ brandToken(fnCall.arg.document)
           /\ ~domainIndicator(fnCall.arg.document)
           /\ ~statementIndicator(fnCall.arg.document)) =>
        fnCall.ret = VersionDetectionResult("v1.0", 0, NoDate, "fallback")

\* a document without the brand token that holds a date range, the v1.1
\* phrase and section headers got the gatekeeper's result
C12_Witness ==
    /\ versionDetected
    /\ ~brandToken(fnCall.arg.document)
    /\ extractStatementDate(flattenDocument(fnCall.arg.document)) # NoDate
    /\ hasWord(fnCall.arg.document, {"withholding"})
    /\ Len(detectSections(fnCall.arg.document)) >= 6
    /\ fnCall.ret = VersionDetectionResult("v1.0", 0, NoDate, "fallback")

\* ------------------------------------------------------------------------
\* C14  The order of the detection branches
\* ------------------------------------------------------------------------
gatekeeperPasses(document) ==
    brandToken(document) /\ (domainIndicator(document) \/ statementIndicator(document))

dateExtractable(document) == extractStatementDate(flattenDocument(document)) # NoDate

\* the best structure score of a document, in sixths of a point
bestStructureScore(document) ==
    LET sectionCount == Len(detectSections(document))
        fullText == fullTextOf(document)
        scores == { structureScore(VERSION_CHARACTERISTICS[k], sectionCount, fullText) :
                      k \in 1..Len(VERSION_CHARACTERISTICS) }
    IN  CHOOSE s \in scores : \A t \in scores : t <= s

laterPhrase(document) ==
    test(Pattern(FALSE, <<{"tax"}, {"withholding"}>>), fullTextOf(document))

\* C14: once the gatekeeper passes, method is date whenever a statement date
\* is extractable, whatever the structure score and the phrases; structure
\* exactly when no date is extractable and the best structure score is >= 50;
\* heuristic exactly when, in addition, the best score is < 50 and the v1.1
\* phrase is present; fallback, with confidence 0.5, only when all of these
\* fail.
C14_BranchOrder ==
    (versionDetected /\ gatekeeperPasses(fnCall.arg.document)) =>
        LET document == fnCall.arg.document
        IN  /\ fnCall.ret.method =
                  IF dateExtractable(document) THEN "date"
                  ELSE IF bestStructureScore(document) >= 300 THEN "structure"
                  ELSE IF laterPhrase(document) THEN "heuristic"
                  ELSE "fallback"
            /\ fnCall.ret.method = "fallback" => fnCall.ret.confidence = 1500

\* the date method won although the structure score is at least 50
C14_Witness ==
    /\ versionDetected
    /\ gatekeeperPasses(fnCall.arg.document)
    /\ dateExtractable(fnCall.arg.document)
    /\ bestStructureScore(fnCall.arg.document) >= 300
    /\ fnCall.ret.method = "date"

\* ------------------------------------------------------------------------
\* C15  The shape of a detection result
\* ------------------------------------------------------------------------
\* C15: detectVersion returns a result for every document, one without pages
\* or without text items included, and the result satisfies: confidence is in
\* [0, 1]; method date implies confidence 0.95; method heuristic implies
\* confidence 0.6 and version v1.1; method structure implies confidence =
\* score x 0.8 for a winning score in [50, 100] (so confidence in [0.4, 0.8]);
\* method fallback implies version v1.0 and confidence 0 or 0.5.
\* (Confidences are in 1/3000, scores in sixths of a point; that a result is
\* returned for every document is the evaluation of detectVersionOf on each.)
C15_ResultShape ==
    versionDetected =>
        LET r == fnCall.ret
            score == bestStructureScore(fnCall.arg.document)
        IN  /\ r.version \in {"v1.0", "v1.1"}
            /\ r.method \in {"date", "structure", "heuristic", "fallback"}
            /\ r.confidence >= 0 /\ r.confidence <= 3000
            /\ r.method = "date" => r.confidence = 2850
            /\ r.method = "heuristic" => (r.confidence = 1800 /\ r.version = "v1.1")
            /\ r.method = "structure" =>
                  /\ score >= 300 /\ score <= 600
                  /\ r.confidence * 10 = (score * 5) * 8
                  /\ r.confidence >= 1200 /\ r.confidence <= 2400
            /\ r.method = "fallback" => (r.version = "v1.0" /\ r.confidence \in {0, 1500})

\* the structure method returned a confidence strictly between 0.4 and 0.8
C15_Witness ==
    /\ versionDetected
    /\ fnCall.ret.method = "structure"
    /\ fnCall.ret.confidence > 1200 /\ fnCall.ret.confidence < 2400
    /\ fnCall.ret.confidence = bestStructureScore(fnCall.arg.document) * 4

\* a document without pages and a document whose only page is empty get a result
emptyDocumentsDetected ==
    (/\ versionDetected
     /\ flattenDocument(fnCall.arg.document) = <<>>) =>
        fnCall.ret = VersionDetectionResult("v1.0", 0, NoDate, "fallback")

\* ------------------------------------------------------------------------
\* C16  The structure method
\* ------------------------------------------------------------------------
structureReturned == fnCall.fn = "detectVersionByStructure" /\ fnCall.pc = "returned"

\* the score the documentation gives a version, in sixths of a point: 20
\* points iff the number of sections is in the version's range, 40 points
\* times the fraction of required patterns found, 40 points times the
\* fraction of distinguishing patterns found
documentedScore(version, document) ==
    LET sections == Len(detectSections(document))
        fullText == fullTextOf(document)
        found(words) == test(Pattern(FALSE, words), fullText)
        required ==
            Cardinality({ p \in { <<{"monthly"}, {"trade"}, {"confirmation", "confirmations"}>>,
                                  <<{"account"}, {"activity"}>>,
                                  <<{"purchase"}, {"and"}, {"sale"}>> } : found(p) })
        brand == IF found(<<{"robinhood"}, {"derivatives"}>>) THEN 1 ELSE 0
        later == IF found(<<{"tax"}, {"withholding"}>>) THEN 1 ELSE 0
    IN  IF version = "v1.0"
        THEN (IF sections \in 6..10 THEN 120 ELSE 0) + 80 * required + 240 * brand
        ELSE (IF sections \in 7..12 THEN 120 ELSE 0) + 80 * required + 120 * (brand + later)

\* C16: the structure method scores each known version as +20 iff the number
\* of detected sections lies in that version's range (v1.0: 6-10, v1.1:
\* 7-12), plus 40 x the fraction of its required patterns found in the text,
\* plus 40 x the fraction of its distinguishing patterns found; it selects
\* the highest-scoring version iff that score is >= 50 and yields no result
\* otherwise.
C16_StructureScore ==
    structureReturned =>
        LET document == fnCall.arg.document
            score10 == documentedScore("v1.0", document)
            score11 == documentedScore("v1.1", document)
            best == IF score10 >= score11 THEN score10 ELSE score11
        IN  /\ (fnCall.ret = NoStructureResult) <=> (best < 300)
            /\ fnCall.ret # NoStructureResult =>
                  /\ fnCall.ret.version \in {"v1.0", "v1.1"}
                  /\ documentedScore(fnCall.ret.version, document) = best
                  /\ fnCall.ret.confidence = best * 5

\* v1.1 was selected with a number of sections in its range that is outside
\* the range of v1.0
C16_Witness ==
    /\ structureReturned
    /\ fnCall.ret.version = "v1.1"
    /\ Len(detectSections(fnCall.arg.document)) \in 11..12
    /\ documentedScore("v1.1", fnCall.arg.document)
           = documentedScore("v1.0", fnCall.arg.document) + 120

\* ------------------------------------------------------------------------
\* Specification: detectSections / detectSectionType / isSectionHeader
\* ------------------------------------------------------------------------
\* The texts of the items of a sectioned document: two headers (the second
\* matching two patterns), a header phrase that is not at the start of its
\* text, a plain text and the empty text
SectionTexts ==
    { <<"robinhood", "derivatives">>,
      <<"account", "activity", "purchase", "and", "sale">>,
      <<"account", "summary">>,
      <<"see", "robinhood", "derivatives">>,
      <<"total">>,
      <<>> }

\* Documents of two pages: up to MaxItems items cut into the two pages at
\* any place, the pages numbered in ascending order or not; and the document
\* without pages
SectionDocument(texts, cut, numbers) ==
    ExtractedDocument(
        << ExtractedPage([i \in 1..cut |-> TextItem(texts[i], numbers[1])]),
           ExtractedPage([i \in 1..(Len(texts) - cut) |->
                             TextItem(texts[cut + i], numbers[2])]) >>)

detectSectionsCalled(document) ==
    fnCall = [fn |-> "detectSections", pc |-> "called",
              arg |-> [document |-> document], ret |-> <<>>]

\* The texts given to detectSectionType and isSectionHeader: up to two
\* phrases, in either order
SectionPhrases ==
    { <<>>, <<"total">>, <<"robinhood", "derivatives">>,
      <<"monthly", "trade", "confirmations">>, <<"account", "activity">>,
      <<"purchase", "and", "sale">>, <<"journal", "entries">>, <<"open", "position">>,
      <<"account", "summary">> }

HeaderTexts == {p \o q : p \in SectionPhrases, q \in SectionPhrases}

InitSections ==
    /\ parsers = <<>>
    /\ versionParserMap = <<>>
    /\ call = IdleCall
    /\ db = NoDatabase
    /\ dbCalls = NoDbCalls
    /\ \/ detectSectionsCalled(ExtractedDocument(<<>>))
       \/ \E n \in 0..MaxItems :
             \E texts \in [1..n -> SectionTexts], cut \in 0..n,
                numbers \in {<<1, 2>>, <<2, 1>>} :
                detectSectionsCalled(SectionDocument(texts, cut, numbers))
       \/ \E text \in HeaderTexts, fn \in {"detectSectionType", "isSectionHeader"} :
             fnCall = [fn |-> fn, pc |-> "called", arg |-> [text |-> text], ret |-> <<>>]

detectSectionsReturns ==
    /\ fnCall.fn = "detectSections"
    /\ fnCall.pc = "called"
    /\ fnCall' = [fnCall EXCEPT !.pc = "returned",
                                !.ret = detectSections(fnCall.arg.document)]
    /\ UNCHANGED <<parsers, versionParserMap, call, db, dbCalls>>

detectSectionTypeReturns ==
    /\ fnCall.fn = "detectSectionType"
    /\ fnCall.pc = "called"
    /\ fnCall' = [fnCall EXCEPT !.pc = "returned",
                                !.ret = detectSectionType(fnCall.arg.text)]
    /\ UNCHANGED <<parsers, versionParserMap, call, db, dbCalls>>

isSectionHeaderReturns ==
    /\ fnCall.fn = "isSectionHeader"
    /\ fnCall.pc = "called"
    /\ fnCall' = [fnCall EXCEPT !.pc = "returned",
                                !.ret = isSectionHeader(fnCall.arg.text)]
    /\ UNCHANGED <<parsers, versionParserMap, call, db, dbCalls>>

NextSections ==
    \/ detectSectionsReturns
    \/ detectSectionTypeReturns
    \/ isSectionHeaderReturns

SpecSections == InitSections /\ [][NextSections]_vars

\* ------------------------------------------------------------------------
\* C17, C18, C19  Sections
\* ------------------------------------------------------------------------
sectionsDetected == fnCall.fn = "detectSections" /\ fnCall.pc = "returned"

\* the section types other than the placeholder unknown
KnownSectionTypes == {SectionTypes[k] : k \in 1..Len(SectionTypes)} \ {"unknown"}

\* the text matches the pattern of a section type
matchesSectionPattern(text) == \E type \in KnownSectionTypes : test(SECTION_PATTERNS[type], text)

\* the 0-based places of the header fragments of a flattened stream
headerIndexes(stream) ==
    {i \in 0..(Len(stream) - 1) : matchesSectionPattern(stream[i + 1].text)}

RECURSIVE concatItems(_, _)
concatItems(sections, k) ==
    IF k > Len(sections) THEN <<>> ELSE sections[k].items \o concatItems(sections, k + 1)

\* C17: the sections returned by detectSections are non-overlapping and
\* ordered by startIndex; each section's items are the slice [startIndex,
\* endIndex) of the flattened stream; consecutive sections are adjacent; the
\* first starts at the first header fragment and the last ends at the end of
\* the stream; the fragments before the first header followed by the items
\* of all sections are the flattened stream; a document without a header
\* match yields no section.
C17_SectionsPartitionTheStream ==
    sectionsDetected =>
        LET stream == flattenDocument(fnCall.arg.document)
            sections == fnCall.ret
            headers == headerIndexes(stream)
        IN  /\ \A k \in 1..Len(sections) :
                  /\ sections[k].startIndex < sections[k].endIndex
                  /\ sections[k].items =
                         SubSeq(stream, sections[k].startIndex + 1, sections[k].endIndex)
            /\ \A k \in 1..(Len(sections) - 1) :
                  sections[k].endIndex = sections[k + 1].startIndex
            /\ (headers = {}) <=> (sections = <<>>)
            /\ sections # <<>> =>
                  /\ sections[1].startIndex \in headers
                  /\ \A i \in headers : sections[1].startIndex <= i
                  /\ sections[Len(sections)].endIndex = Len(stream)
                  /\ SubSeq(stream, 1, sections[1].startIndex) \o concatItems(sections, 1)
                         = stream

\* two sections follow one fragment that belongs to no section
C17_Witness ==
    /\ sectionsDetected
    /\ Len(fnCall.ret) = 2
    /\ fnCall.ret[1].startIndex = 1
    /\ Len(fnCall.ret[1].items) + Len(fnCall.ret[2].items) + 1
           = Len(flattenDocument(fnCall.arg.document))

\* the page numbers of the stream never decrease
pagesAscending(stream) ==
    \A i \in 1..(Len(stream) - 1) : stream[i].pageNumber <= stream[i + 1].pageNumber

\* C18: every fragment whose text matches a section pattern opens a section:
\* each section's first item is its header (headerText is its text, startPage
\* its page, type a type whose pattern matches it), no other item of the
\* section matches a section pattern, endIndex is the index of the next
\* header or the stream length, endPage the page of the fragment just before
\* endIndex, and startPage <= endPage when the pages are in ascending order.
C18_HeadersOpenSections ==
    sectionsDetected =>
        LET stream == flattenDocument(fnCall.arg.document)
            sections == fnCall.ret
            headers == headerIndexes(stream)
        IN  /\ {sections[k].startIndex : k \in 1..Len(sections)} = headers
            /\ Len(sections) = Cardinality(headers)
            /\ \A k \in 1..Len(sections) :
                  LET s == sections[k]
                  IN  /\ s.items # <<>>
                      /\ s.headerText = s.items[1].text
                      /\ s.startPage = s.items[1].pageNumber
                      /\ s.type \in KnownSectionTypes
                      /\ test(SECTION_PATTERNS[s.type], s.headerText)
                      /\ \A j \in 2..Len(s.items) : ~matchesSectionPattern(s.items[j].text)
                      /\ s.endIndex \in headers \cup {Len(stream)}
                      /\ \A i \in headers : i <= s.startIndex \/ i >= s.endIndex
                      /\ s.endPage = stream[s.endIndex].pageNumber
                      /\ pagesAscending(stream) => s.startPage <= s.endPage

\* a section of the first page holds, after its header, a text with a header
\* phrase that is not at its start, and is closed by a header of the second
\* page
C18_Witness ==
    /\ sectionsDetected
    /\ Len(fnCall.ret) = 2
    /\ fnCall.ret[1].startPage = 1 /\ fnCall.ret[1].endPage = 1
    /\ fnCall.ret[2].startPage = 2
    /\ Len(fnCall.ret[1].items) = 2
    /\ fnCall.ret[1].items[2].text = <<"see", "robinhood", "derivatives">>

\* the first type, in registration order, whose pattern matches the text
firstMatchingType(text) ==
    LET k == CHOOSE k \in 1..Len(SectionTypes) :
                 /\ SectionTypes[k] # "unknown"
                 /\ test(SECTION_PATTERNS[SectionTypes[k]], text)
                 /\ \A j \in 1..(k - 1) : ~test(SECTION_PATTERNS[SectionTypes[j]], text)
    IN  SectionTypes[k]

\* C19: a text that matches several section patterns is labelled with the
\* first matching pattern in the registration order header, trades, activity,
\* purchase_sale, journal, open_positions, account_summary, by
\* detectSectionType and so by detectSections and isSectionHeader; unknown is
\* returned exactly when no pattern matches and is never the type of a
\* detected section.
C19_FirstPatternWins ==
    /\ SectionTypes = <<"header", "trades", "activity", "purchase_sale", "journal",
                        "open_positions", "account_summary", "unknown">>
    /\ (fnCall.fn = "detectSectionType" /\ fnCall.pc = "returned") =>
          /\ (fnCall.ret = "unknown") <=> ~matchesSectionPattern(fnCall.arg.text)
          /\ matchesSectionPattern(fnCall.arg.text) =>
                fnCall.ret = firstMatchingType(fnCall.arg.text)
    /\ (fnCall.fn = "isSectionHeader" /\ fnCall.pc = "returned") =>
          (fnCall.ret <=> matchesSectionPattern(fnCall.arg.text))
    /\ sectionsDetected =>
          \A k \in 1..Len(fnCall.ret) :
              /\ fnCall.ret[k].type # "unknown"
              /\ fnCall.ret[k].type = firstMatchingType(fnCall.ret[k].headerText)

\* a text with the journal phrase after the open-positions phrase is
\* labelled journal
C19_Witness ==
    /\ fnCall.fn = "detectSectionType" /\ fnCall.pc = "returned"
    /\ fnCall.arg.text = <<"open", "position", "journal", "entries">>
    /\ fnCall.ret = "journal"

\* ========================================================================
\* Column layer
\* ========================================================================
\* Horizontal positions are counted in half PDF units, so that
\* item.x + item.width / 2 and (leftAbsolute + rightAbsolute) / 2 stay whole
\* numbers; the positions of the model are finite numbers.
\* ColumnPosition: name and absolute bounds (the percentages are not read here)
ColumnPosition(name, leftAbsolute, rightAbsolute) ==
    [name |-> name, leftAbsolute |-> leftAbsolute, rightAbsolute |-> rightAbsolute]

ColumnLayout(columns) == [columns |-> columns]

\* what getColumnForItem returns for null
NullColumn == "null"

abs(n) == IF n < 0 THEN 0 - n ELSE n

\* item.x + item.width / 2
itemCenterOf(item) == item.x + item.width \div 2

\* the first loop of getColumnForItem: the 1-based place of the first column
\* that contains the center, 0 when there is none
firstContaining(columns, itemCenter) ==
    LET holds(k) == /\ itemCenter >= columns[k].leftAbsolute
                    /\ itemCenter <= columns[k].rightAbsolute
    IN  IF \E k \in 1..Len(columns) : holds(k)
        THEN CHOOSE k \in 1..Len(columns) : holds(k) /\ \A j \in 1..(k - 1) : ~holds(j)
        ELSE 0

\* the second loop: closestColumn after the columns from k on, closest being
\* the place of closestColumn so far (0 for null, closestDistance Infinity)
RECURSIVE closestFrom(_, _, _, _)
closestFrom(columns, itemCenter, k, closest) ==
    IF k > Len(columns) THEN closest
    ELSE LET columnCenter == (columns[k].leftAbsolute + columns[k].rightAbsolute) \div 2
             distance == abs(itemCenter - columnCenter)
             closestDistance ==
                 abs(itemCenter - (columns[closest].leftAbsolute
                                       + columns[closest].rightAbsolute) \div 2)
         IN  closestFrom(columns, itemCenter, k + 1,
                         IF closest = 0 \/ distance < closestDistance THEN k ELSE closest)

\* (variant: without the fallback to the closest column)
getColumnForItem_NoFallback(item, layout) ==
    LET containing == firstContaining(layout.columns, itemCenterOf(item))
    IN  IF containing > 0 THEN layout.columns[containing].name ELSE NullColumn

getColumnForItem(item, layout) ==
    LET itemCenter == itemCenterOf(item)
        containing == firstContaining(layout.columns, itemCenter)
        closestColumn == closestFrom(layout.columns, itemCenter, 1, 0)
    IN  IF containing > 0 THEN layout.columns[containing].name
        ELSE IF closestColumn > 0 THEN layout.columns[closestColumn].name
        ELSE NullColumn

\* ------------------------------------------------------------------------
\* Specification: getColumnForItem applied to an item and a layout
\* ------------------------------------------------------------------------
\* most columns of a layout
MaxColumns == 2

TRADE_COLUMN_HEADERS == <<"Date", "Subtype", "Symbol", "Price", "Qty", "Commission">>

\* positions and widths, in half units (all even: whole PDF units)
Positions == {0, 20, 40, 60}
Widths == {0, 10, 30}

\* layouts of up to MaxColumns columns, named in the order of
\* TRADE_COLUMN_HEADERS, with any bounds (a column can be empty, columns can
\* overlap or leave gaps)
TradeColumnLayout(lefts, rights) ==
    ColumnLayout([k \in 1..Len(lefts) |->
                     ColumnPosition(TRADE_COLUMN_HEADERS[k], lefts[k], rights[k])])

ColumnItems == [x : Positions \cup {100}, width : Widths]

InitColumns ==
    /\ parsers = <<>>
    /\ versionParserMap = <<>>
    /\ call = IdleCall
    /\ db = NoDatabase
    /\ dbCalls = NoDbCalls
    /\ \E item \in ColumnItems, n \in 0..MaxColumns :
          \E lefts \in [1..n -> Positions], rights \in [1..n -> Positions] :
             fnCall = [fn |-> "getColumnForItem", pc |-> "called",
                       arg |-> [item |-> item, layout |-> TradeColumnLayout(lefts, rights)],
                       ret |-> <<>>]

getColumnForItemReturns ==
    /\ fnCall.fn = "getColumnForItem"
    /\ fnCall.pc = "called"
    /\ fnCall' = [fnCall EXCEPT !.pc = "returned",
                                !.ret = getColumnForItem(fnCall.arg.item, fnCall.arg.layout)]
    /\ UNCHANGED <<parsers, versionParserMap, call, db, dbCalls>>

NextColumns == getColumnForItemReturns

SpecColumns == InitColumns /\ [][NextColumns]_vars

\* ------------------------------------------------------------------------
\* C20  Column assignment
\* ------------------------------------------------------------------------
columnReturned == fnCall.fn = "getColumnForItem" /\ fnCall.pc = "returned"

\* C20: for every fragment and every layout with at least one column,
\* getColumnForItem does not return null: it returns a column whose
\* [leftAbsolute, rightAbsolute] contains the fragment's horizontal center
\* (x + width / 2) if there is one, and otherwise the column whose center is
\* nearest to the fragment's center; it returns null only for a layout
\* without columns.
C20_NearestColumnNeverNull ==
    columnReturned =>
        LET columns == fnCall.arg.layout.columns
            center2 == 2 * fnCall.arg.item.x + fnCall.arg.item.width
            contains(k) == /\ center2 >= 2 * columns[k].leftAbsolute
                           /\ center2 <= 2 * columns[k].rightAbsolute
            distance2(k) == abs(center2 - (columns[k].leftAbsolute + columns[k].rightAbsolute))
        IN  /\ (fnCall.ret = NullColumn) <=> (columns = <<>>)
            /\ columns # <<>> =>
                  \E k \in 1..Len(columns) :
                      /\ fnCall.ret = columns[k].name
                      /\ IF \E j \in 1..Len(columns) : contains(j)
                         THEN contains(k)
                         ELSE \A j \in 1..Len(columns) : distance2(k) <= distance2(j)

\* a fragment right of both columns is given the second column, the nearer one
C20_Witness ==
    /\ columnReturned
    /\ Len(fnCall.arg.layout.columns) = 2
    /\ \A k \in 1..2 :
          fnCall.arg.item.x > fnCall.arg.layout.columns[k].rightAbsolute
    /\ fnCall.arg.layout.columns[1].rightAbsolute < fnCall.arg.layout.columns[2].leftAbsolute
    /\ fnCall.ret = "Subtype"

\* ========================================================================
\* Column detection: detectColumnPositions
\* ========================================================================
\* A header fragment is its text, a list of lower-case words, and its x (in
\* half units, like the bounds of the columns).
HeaderItem(text, x) == [text |-> text, x |-> x]

\* name.toLowerCase() of the names of TRADE_COLUMN_HEADERS
toLowerCase ==
    [ name \in {"Date", "Subtype", "Symbol", "Price", "Qty", "Commission"} |->
        CASE name = "Date" -> "date"
          [] name = "Subtype" -> "subtype"
          [] name = "Symbol" -> "symbol"
          [] name = "Price" -> "price"
          [] name = "Qty" -> "qty"
          [] name = "Commission" -> "commission" ]

\* the lower-case column names that are substrings of a word
namesWithin ==
    [ word \in {"date", "updated", "symbol", "description", "price"} |->
        CASE word = "date" -> {"date"}
          [] word = "updated" -> {"date"}
          [] word = "symbol" -> {"symbol"}
          [] word = "description" -> {}
          [] word = "price" -> {"price"} ]

\* item.text.toLowerCase().includes(name.toLowerCase())
includes(text, name) == \E i \in 1..Len(text) : toLowerCase[name] \in namesWithin[text[i]]

\* [...headerItems].sort((a, b) => a.x - b.x): a stable sort by ascending x
RECURSIVE insertByX(_, _)
insertByX(sorted, item) ==
    IF sorted = <<>> THEN <<item>>
    ELSE IF sorted[Len(sorted)].x <= item.x THEN Append(sorted, item)
    ELSE Append(insertByX(SubSeq(sorted, 1, Len(sorted) - 1), item), sorted[Len(sorted)])

RECURSIVE sortByX(_)
sortByX(items) ==
    IF items = <<>> THEN <<>>
    ELSE insertByX(sortByX(SubSeq(items, 1, Len(items) - 1)), items[Len(items)])

\* sorted.find(item => includes(name)): the place of the first match, 0 for none
findHeaderItem(sorted, name) ==
    IF \E i \in 1..Len(sorted) : includes(sorted[i].text, name)
    THEN CHOOSE i \in 1..Len(sorted) :
            /\ includes(sorted[i].text, name)
            /\ \A j \in 1..(i - 1) : ~includes(sorted[j].text, name)
    ELSE 0

\* nextItem ? nextItem.x - 5 : pageWidth, with nextItem = sorted[currentIndex + 1]
rightAbsoluteOf(sorted, currentIndex, pageWidth) ==
    IF currentIndex + 1 <= Len(sorted) THEN sorted[currentIndex + 1].x - 2 * 5 ELSE pageWidth

\* the loop over columnNames from place k on
RECURSIVE columnsFrom(_, _, _, _)
columnsFrom(sorted, pageWidth, columnNames, k) ==
    IF k > Len(columnNames) THEN <<>>
    ELSE LET name == columnNames[k]
             currentIndex == findHeaderItem(sorted, name)
             rest == columnsFrom(sorted, pageWidth, columnNames, k + 1)
         IN  IF currentIndex = 0 THEN rest
             ELSE <<ColumnPosition(name, sorted[currentIndex].x,
                                   rightAbsoluteOf(sorted, currentIndex, pageWidth))>> \o rest

\* detectColumnPositions(headerItems, pageWidth, columnNames); the layout
\* also carries pageWidth, unchanged
detectColumnPositions(headerItems, pageWidth, columnNames) ==
    ColumnLayout(columnsFrom(sortByX(headerItems), pageWidth, columnNames, 1))

\* ------------------------------------------------------------------------
\* Specification: detectColumnPositions applied to a header row
\* ------------------------------------------------------------------------
\* most fragments of a header row
MaxHeaderItems == 3

\* The texts of header fragments: one expected name each, a name inside a
\* longer word, an unexpected header, and two names in one fragment
HeaderCellTexts ==
    { <<"date">>, <<"symbol">>, <<"description">>, <<"updated", "symbol">> }

HeaderPositions == {0, 20, 40}

HeaderFragments == {HeaderItem(text, x) : text \in HeaderCellTexts, x \in HeaderPositions}

PageWidths == {100, 200}

\* expected names in and out of the order of the page, one of them absent
\* from every header
ColumnNameLists == { <<"Date", "Symbol">>, <<"Symbol", "Date">>, <<"Date", "Qty", "Symbol">> }

InitColumnPositions ==
    /\ parsers = <<>>
    /\ versionParserMap = <<>>
    /\ call = IdleCall
    /\ db = NoDatabase
    /\ dbCalls = NoDbCalls
    /\ \E n \in 0..MaxHeaderItems :
          \E headerItems \in [1..n -> HeaderFragments], pageWidth \in PageWidths,
             columnNames \in ColumnNameLists :
             fnCall = [fn |-> "detectColumnPositions", pc |-> "called",
                       arg |-> [headerItems |-> headerItems, pageWidth |-> pageWidth,
                                columnNames |-> columnNames],
                       ret |-> <<>>]

detectColumnPositionsReturns ==
    /\ fnCall.fn = "detectColumnPositions"
    /\ fnCall.pc = "called"
    /\ fnCall' = [fnCall EXCEPT !.pc = "returned",
                                !.ret = detectColumnPositions(fnCall.arg.headerItems,
                                                              fnCall.arg.pageWidth,
                                                              fnCall.arg.columnNames)]
    /\ UNCHANGED <<parsers, versionParserMap, call, db, dbCalls>>

NextColumnPositions == detectColumnPositionsReturns

SpecColumnPositions == InitColumnPositions /\ [][NextColumnPositions]_vars

\* ------------------------------------------------------------------------
\* C21  The bounds of the detected columns
\* ------------------------------------------------------------------------
columnPositionsReturned == fnCall.fn = "detectColumnPositions" /\ fnCall.pc = "returned"

\* the expected names that some header fragment matches, in the given order
RECURSIVE matchedNames(_, _, _)
matchedNames(headerItems, columnNames, k) ==
    IF k > Len(columnNames) THEN <<>>
    ELSE (IF \E i \in 1..Len(headerItems) : includes(headerItems[i].text, columnNames[k])
          THEN <<columnNames[k]>> ELSE <<>>)
         \o matchedNames(headerItems, columnNames, k + 1)

\* the x of the matching fragment of a name: the leftmost one, the first
\* delivered among those of equal x
matchingX(headerItems, name) ==
    LET matching == {i \in 1..Len(headerItems) : includes(headerItems[i].text, name)}
        first == CHOOSE i \in matching :
                    \A j \in matching :
                       \/ headerItems[i].x < headerItems[j].x
                       \/ headerItems[i].x = headerItems[j].x /\ i <= j
    IN  headerItems[first].x

\* the bounds the columns are said to have
claimedBounds ==
    LET columns == fnCall.ret.columns
        headerItems == fnCall.arg.headerItems
    IN  /\ [k \in 1..Len(columns) |-> columns[k].name]
               = matchedNames(headerItems, fnCall.arg.columnNames, 1)
        /\ \A k \in 1..Len(columns) :
              /\ columns[k].leftAbsolute = matchingX(headerItems, columns[k].name)
              /\ columns[k].rightAbsolute =
                    IF k < Len(columns) THEN columns[k + 1].leftAbsolute - 2 * 5
                    ELSE fnCall.arg.pageWidth

\* C21: for every header row, page width and list of expected names, the
\* columns returned are those of the expected names that a header fragment
\* matches, in the order of the names; each has leftAbsolute equal to the x
\* of its matching fragment, and rightAbsolute equal to the leftAbsolute of
\* the next column of the layout minus 5, the last column of the layout
\* having rightAbsolute equal to pageWidth.
C21_ColumnBounds == columnPositionsReturned => claimedBounds

\* What the code computes: the right bound comes from the fragment that
\* follows the matching fragment in the order of x, whether or not that
\* fragment is the header of a column, and is pageWidth only for the
\* rightmost fragment
rightBoundFromNextFragment ==
    columnPositionsReturned =>
        LET columns == fnCall.ret.columns
            sorted == sortByX(fnCall.arg.headerItems)
        IN  /\ [k \in 1..Len(columns) |-> columns[k].name]
                   = matchedNames(fnCall.arg.headerItems, fnCall.arg.columnNames, 1)
            /\ \A k \in 1..Len(columns) :
                  \E i \in 1..Len(sorted) :
                     /\ includes(sorted[i].text, columns[k].name)
                     /\ columns[k].leftAbsolute = sorted[i].x
                     /\ columns[k].leftAbsolute
                            = matchingX(fnCall.arg.headerItems, columns[k].name)
                     /\ columns[k].rightAbsolute =
                           IF i < Len(sorted) THEN sorted[i + 1].x - 2 * 5
                           ELSE fnCall.arg.pageWidth

\* on header rows that hold one fragment per expected name, in the order of
\* the names, and nothing else, the claimed bounds are the computed ones
plainHeaderRow ==
    /\ columnPositionsReturned
    /\ LET sorted == sortByX(fnCall.arg.headerItems)
           columnNames == fnCall.arg.columnNames
       IN  /\ Len(sorted) = Len(columnNames)
           /\ \A i \in 1..Len(sorted) :
                 \A k \in 1..Len(columnNames) : includes(sorted[i].text, columnNames[k]) <=> i = k

plainHeaderRowBounds == plainHeaderRow => claimedBounds

\* ========================================================================
\* Line grouping: groupIntoLines
\* ========================================================================
\* A fragment is read here by its position only: x and y of a TextItem.
Fragment(x, y) == [x |-> x, y |-> y]

\* [...items].sort((a, b) => b.y - a.y): a stable sort by descending y
RECURSIVE insertByYDescending(_, _)
insertByYDescending(sorted, item) ==
    IF sorted = <<>> THEN <<item>>
    ELSE IF sorted[Len(sorted)].y >= item.y THEN Append(sorted, item)
    ELSE Append(insertByYDescending(SubSeq(sorted, 1, Len(sorted) - 1), item),
                sorted[Len(sorted)])

RECURSIVE sortByYDescending(_)
sortByYDescending(items) ==
    IF items = <<>> THEN <<>>
    ELSE insertByYDescending(sortByYDescending(SubSeq(items, 1, Len(items) - 1)),
                             items[Len(items)])

\* the loop of groupIntoLines from sorted[i] on, with the lines saved so far,
\* the line being filled and the y it started with
RECURSIVE groupFrom(_, _, _, _, _, _)
groupFrom(sorted, tolerance, i, lines, currentLine, currentY) ==
    IF i > Len(sorted) THEN Append(lines, sortByX(currentLine))
    ELSE IF abs(sorted[i].y - currentY) <= tolerance
    THEN groupFrom(sorted, tolerance, i + 1, lines, Append(currentLine, sorted[i]), currentY)
    ELSE groupFrom(sorted, tolerance, i + 1, Append(lines, sortByX(currentLine)),
                   <<sorted[i]>>, sorted[i].y)

groupIntoLines(items, tolerance) ==
    IF Len(items) = 0 THEN <<>>
    ELSE LET sorted == sortByYDescending(items)
         IN  groupFrom(sorted, tolerance, 2, <<>>, <<sorted[1]>>, sorted[1].y)

\* ------------------------------------------------------------------------
\* Specification: groupIntoLines applied to the fragments of a page
\* ------------------------------------------------------------------------
\* y values 3 apart, so that three fragments in a row can each be within the
\* default tolerance of the next while the first and the last are not
LineYs == {0, 3, 6, 9, 20}
LineXs == {0, 10}
Tolerances == {0, 5}

InitLines ==
    /\ parsers = <<>>
    /\ versionParserMap = <<>>
    /\ call = IdleCall
    /\ db = NoDatabase
    /\ dbCalls = NoDbCalls
    /\ \E n \in 0..MaxItems :
          \E xs \in [1..n -> LineXs], ys \in [1..n -> LineYs], tolerance \in Tolerances :
             fnCall = [fn |-> "groupIntoLines", pc |-> "called",
                       arg |-> [items |-> [i \in 1..n |-> Fragment(xs[i], ys[i])],
                                tolerance |-> tolerance],
                       ret |-> <<>>]

groupIntoLinesReturns ==
    /\ fnCall.fn = "groupIntoLines"
    /\ fnCall.pc = "called"
    /\ fnCall' = [fnCall EXCEPT !.pc = "returned",
                                !.ret = groupIntoLines(fnCall.arg.items, fnCall.arg.tolerance)]
    /\ UNCHANGED <<parsers, versionParserMap, call, db, dbCalls>>

NextLines == groupIntoLinesReturns

SpecLines == InitLines /\ [][NextLines]_vars

\* ------------------------------------------------------------------------
\* C22  The lines of groupIntoLines
\* ------------------------------------------------------------------------
linesReturned == fnCall.fn = "groupIntoLines" /\ fnCall.pc = "returned"

\* how often a fragment occurs in a list
occurrences(list, item) == Cardinality({i \in 1..Len(list) : list[i] = item})

RECURSIVE concatLines(_, _)
concatLines(lines, k) ==
    IF k > Len(lines) THEN <<>> ELSE lines[k] \o concatLines(lines, k + 1)

\* the line that holds the i-th fragment of the order by descending y: the
\* lines are filled in that order
RECURSIVE lineOf(_, _, _)
lineOf(lines, i, k) ==
    IF i <= Len(lines[k]) THEN k ELSE lineOf(lines, i - Len(lines[k]), k + 1)

\* every fragment is in exactly one line, no line is empty, the lines follow
\* each other by descending y and each line is sorted by ascending x
linesPartitionInOrder ==
    LET lines == fnCall.ret
        items == fnCall.arg.items
    IN  /\ \A i \in 1..Len(items) :
              occurrences(concatLines(lines, 1), items[i]) = occurrences(items, items[i])
        /\ Len(concatLines(lines, 1)) = Len(items)
        /\ \A k \in 1..Len(lines) :
              /\ lines[k] # <<>>
              /\ \A i \in 1..(Len(lines[k]) - 1) : lines[k][i].x <= lines[k][i + 1].x
              /\ \A l \in (k + 1)..Len(lines) :
                    \A i \in 1..Len(lines[k]), j \in 1..Len(lines[l]) :
                       lines[k][i].y > lines[l][j].y

\* C22: groupIntoLines(items, tolerance) orders the fragments by descending
\* y and puts two fragments that are consecutive in that order into the same
\* line exactly when their y values differ by at most the tolerance; every
\* input fragment appears in exactly one output line, the lines are in
\* descending y order, and each line is sorted by ascending x.
C22_ConsecutiveWithinTolerance ==
    linesReturned =>
        LET lines == fnCall.ret
            sorted == sortByYDescending(fnCall.arg.items)
        IN  /\ linesPartitionInOrder
            /\ \A i \in 1..(Len(sorted) - 1) :
                  (lineOf(lines, i, 1) = lineOf(lines, i + 1, 1))
                      <=> (sorted[i].y - sorted[i + 1].y <= fnCall.arg.tolerance)

\* What the code computes: a fragment joins the line of its predecessor
\* exactly when its y is within the tolerance of the y of the first fragment
\* of that line, so a line never spans more than the tolerance
anchoredOnFirstOfLine ==
    linesReturned =>
        LET lines == fnCall.ret
            sorted == sortByYDescending(fnCall.arg.items)
            firstOfLine(i) == CHOOSE j \in 1..i :
                                 /\ lineOf(lines, j, 1) = lineOf(lines, i, 1)
                                 /\ \A h \in 1..(j - 1) : lineOf(lines, h, 1) # lineOf(lines, i, 1)
        IN  /\ linesPartitionInOrder
            /\ \A i \in 1..(Len(sorted) - 1) :
                  (lineOf(lines, i, 1) = lineOf(lines, i + 1, 1))
                      <=> (sorted[firstOfLine(i)].y - sorted[i + 1].y <= fnCall.arg.tolerance)

\* ========================================================================
\* The order of the fragments of a page: items.sort in loadPDFFromArrayBuffer
\* ========================================================================
\* The comparator of the loader: b.y - a.y when the two are more than 5
\* apart in y, a.x - b.x otherwise (negative: a first, positive: b first)
compareFragments(a, b) ==
    LET yDiff == b.y - a.y
    IN  IF abs(yDiff) > 5 THEN yDiff ELSE a.x - b.x

sign(n) == IF n < 0 THEN 0 - 1 ELSE IF n > 0 THEN 1 ELSE 0

\* A consistent comparator on a list of values (ECMAScript, Array.prototype.sort):
\* antisymmetric, and both "before" and "equal" are transitive
consistentOn(items) ==
    LET values == {items[i] : i \in 1..Len(items)}
        c(a, b) == sign(compareFragments(a, b))
    IN  /\ \A a, b \in values : c(a, b) = 0 - c(b, a)
        /\ \A a, b, d \in values :
              /\ (c(a, b) = 0 /\ c(b, d) = 0) => c(a, d) = 0
              /\ (c(a, b) < 0 /\ c(b, d) < 0) => c(a, d) < 0
              /\ (c(a, b) = 0 /\ c(b, d) < 0) => c(a, d) < 0
              /\ (c(a, b) < 0 /\ c(b, d) = 0) => c(a, d) < 0

\* the stable sort by the comparator
RECURSIVE insertByComparator(_, _)
insertByComparator(sorted, item) ==
    IF sorted = <<>> THEN <<item>>
    ELSE IF compareFragments(sorted[Len(sorted)], item) <= 0 THEN Append(sorted, item)
    ELSE Append(insertByComparator(SubSeq(sorted, 1, Len(sorted) - 1), item),
                sorted[Len(sorted)])

RECURSIVE sortByComparator(_)
sortByComparator(items) ==
    IF items = <<>> THEN <<>>
    ELSE insertByComparator(sortByComparator(SubSeq(items, 1, Len(items) - 1)),
                            items[Len(items)])

\* the orders in which a list can be delivered
permutationsOf(items) ==
    { [i \in 1..Len(items) |-> items[p[i]]] :
        p \in {q \in [1..Len(items) -> 1..Len(items)] :
                 \A i, j \in 1..Len(items) : q[i] = q[j] => i = j} }

\* items.sort(comparator): the stable sort when the comparator is consistent
\* on the items; an order the implementation chooses when it is not
sortOutcomes(items) ==
    IF consistentOn(items) THEN {sortByComparator(items)} ELSE permutationsOf(items)

\* ------------------------------------------------------------------------
\* Specification: the loader sorting the fragments of a page
\* ------------------------------------------------------------------------
\* y values 4 apart: neighbours are within the 5 units of one line, the
\* first and the last are not
SortYs == {0, 4, 8}
SortXs == {0, 10, 20}

InitSort ==
    /\ parsers = <<>>
    /\ versionParserMap = <<>>
    /\ call = IdleCall
    /\ db = NoDatabase
    /\ dbCalls = NoDbCalls
    /\ \E n \in 0..MaxItems :
          \E xs \in [1..n -> SortXs], ys \in [1..n -> SortYs] :
             fnCall = [fn |-> "items.sort", pc |-> "called",
                       arg |-> [items |-> [i \in 1..n |-> Fragment(xs[i], ys[i])]],
                       ret |-> <<>>]

itemsSortReturns ==
    /\ fnCall.fn = "items.sort"
    /\ fnCall.pc = "called"
    /\ \E sorted \in sortOutcomes(fnCall.arg.items) :
          fnCall' = [fnCall EXCEPT !.pc = "returned", !.ret = sorted]
    /\ UNCHANGED <<parsers, versionParserMap, call, db, dbCalls>>

NextSort == itemsSortReturns

SpecSort == InitSort /\ [][NextSort]_vars

\* ------------------------------------------------------------------------
\* C23  The order of the fragments is a function of their set
\* ------------------------------------------------------------------------
sortReturned == fnCall.fn = "items.sort" /\ fnCall.pc = "returned"

\* C23: the order of the fragments of a page produced by the loader is a
\* function of the fragments alone: in whatever order the extractor delivers
\* them, the sort produces the same order; and the comparator is a
\* consistent ordering of every three fragments (transitive, without cycle).
C23_OrderIndependentOfDelivery ==
    sortReturned =>
        /\ consistentOn(fnCall.arg.items)
        /\ \A delivered \in permutationsOf(fnCall.arg.items) :
              sortOutcomes(delivered) = {fnCall.ret}

\* three fragments that the comparator orders in a cycle
inCycle(a, b, d) ==
    /\ compareFragments(a, b) < 0
    /\ compareFragments(b, d) < 0
    /\ compareFragments(d, a) < 0

\* on a page with such a cycle the comparator is not consistent
cycleIsInconsistent ==
    (/\ sortReturned
     /\ Len(fnCall.arg.items) = 3
     /\ inCycle(fnCall.arg.items[1], fnCall.arg.items[2], fnCall.arg.items[3])) =>
        ~consistentOn(fnCall.arg.items)

\* What holds: on pages where the comparator is
\* consistent and no two different fragments compare equal the order does
\* not depend on the delivery
sortedWhenConsistentAndStrict ==
    (/\ sortReturned
     /\ consistentOn(fnCall.arg.items)
     /\ \A i, j \in 1..Len(fnCall.arg.items) :
           compareFragments(fnCall.arg.items[i], fnCall.arg.items[j]) = 0
               => fnCall.arg.items[i] = fnCall.arg.items[j]) =>
        /\ \A delivered \in permutationsOf(fnCall.arg.items) :
              sortOutcomes(delivered) = {fnCall.ret}
        /\ \A i \in 1..(Len(fnCall.ret) - 1) :
              compareFragments(fnCall.ret[i], fnCall.ret[i + 1]) <= 0

\* ========================================================================
\* Currency values: parseCurrency
\* ========================================================================
\* A string is the list of its characters. A number is its sign and its
\* decimal digits: mantissa / 10^scale, without trailing zeros in the
\* fraction (isNegative with mantissa 0 is -0).
Number(negative, mantissa, scale) ==
    [kind |-> "number", negative |-> negative, mantissa |-> mantissa, scale |-> scale]

NaN == [kind |-> "NaN", negative |-> FALSE, mantissa |-> 0, scale |-> 0]
Null == [kind |-> "null", negative |-> FALSE, mantissa |-> 0, scale |-> 0]

Digits == {"0", "1", "2", "3", "4", "5", "6", "7", "8", "9"}

digitValue ==
    [ c \in Digits |->
        CASE c = "0" -> 0 [] c = "1" -> 1 [] c = "2" -> 2 [] c = "3" -> 3 [] c = "4" -> 4
          [] c = "5" -> 5 [] c = "6" -> 6 [] c = "7" -> 7 [] c = "8" -> 8 [] c = "9" -> 9 ]

\* value.replace(/[chars]/g, by), by being a string
RECURSIVE replaceAll(_, _, _)
replaceAll(value, chars, by) ==
    IF value = <<>> THEN <<>>
    ELSE (IF Head(value) \in chars THEN by ELSE <<Head(value)>>)
         \o replaceAll(Tail(value), chars, by)

\* the number of digits at the start of a string
RECURSIVE digitsAtStart(_)
digitsAtStart(s) ==
    IF s # <<>> /\ Head(s) \in Digits THEN 1 + digitsAtStart(Tail(s)) ELSE 0

\* the value of a string of digits
RECURSIVE digitsValue(_)
digitsValue(s) ==
    IF s = <<>> THEN 0
    ELSE digitsValue(SubSeq(s, 1, Len(s) - 1)) * 10 + digitValue[s[Len(s)]]

\* mantissa / 10^scale without trailing zeros in the fraction
RECURSIVE normalised(_, _)
normalised(mantissa, scale) ==
    IF scale > 0 /\ mantissa % 10 = 0 THEN normalised(mantissa \div 10, scale - 1)
    ELSE Number(FALSE, mantissa, scale)

\* how much of a string parseFloat reads: the longest prefix that is a
\* decimal literal, digits with an optional fraction or a fraction alone
\* (the strings of the model hold no sign, exponent or "Infinity")
literalLength(s) ==
    LET whole == digitsAtStart(s)
        fraction == IF whole < Len(s) /\ s[whole + 1] = "."
                    THEN digitsAtStart(SubSeq(s, whole + 2, Len(s))) ELSE 0
    IN  IF whole = 0 /\ fraction = 0 THEN 0
        ELSE IF fraction = 0
        THEN (IF whole < Len(s) /\ s[whole + 1] = "." THEN whole + 1 ELSE whole)
        ELSE whole + 1 + fraction

\* parseFloat(s): the value of that prefix, NaN when there is none
parseFloat(s) ==
    LET whole == digitsAtStart(s)
        fraction == IF whole < Len(s) /\ s[whole + 1] = "."
                    THEN digitsAtStart(SubSeq(s, whole + 2, Len(s))) ELSE 0
    IN  IF literalLength(s) = 0 THEN NaN
        ELSE normalised(digitsValue(SubSeq(s, 1, whole)
                                    \o SubSeq(s, whole + 2, whole + 1 + fraction)),
                        fraction)

\* value.replace(/[$,\s]/g, "").replace(/[()]/g, "-")
cleanedOf(value) == replaceAll(replaceAll(value, {"$", ",", " "}, <<>>), {"(", ")"}, <<"-">>)

includesChar(value, c) == \E i \in 1..Len(value) : value[i] = c

\* cleaned.replace(/-/g, "")
numericPartOf(cleaned) == replaceAll(cleaned, {"-"}, <<>>)

parseCurrency(value) ==
    LET cleaned == cleanedOf(value)
        isNegative == includesChar(value, "(") \/ (cleaned # <<>> /\ Head(cleaned) = "-")
        parsed == parseFloat(numericPartOf(cleaned))
    IN  IF parsed = NaN THEN Null
        ELSE IF isNegative THEN [parsed EXCEPT !.negative = TRUE] ELSE parsed

\* ------------------------------------------------------------------------
\* Specification: parseCurrency applied to a string
\* ------------------------------------------------------------------------
\* most characters of an enumerated string
MaxChars == 4

CurrencyChars == {"$", ",", " ", "(", ")", "-", ".", "0", "5", "a"}

\* the documented values
CurrencyExamples ==
    { <<"$", "1", ",", "2", "3", "4", ".", "5", "6">>,
      <<"(", "1", "2", ".", "3", "4", ")">>,
      <<"-", "5", ".", "0", "0">>,
      <<"a", "b", "c">> }

parseCurrencyCalled(value) ==
    fnCall = [fn |-> "parseCurrency", pc |-> "called", arg |-> [value |-> value],
              ret |-> <<>>]

InitCurrency ==
    /\ parsers = <<>>
    /\ versionParserMap = <<>>
    /\ call = IdleCall
    /\ db = NoDatabase
    /\ dbCalls = NoDbCalls
    /\ \/ \E value \in CurrencyExamples : parseCurrencyCalled(value)
       \/ \E n \in 0..MaxChars :
             \E value \in [1..n -> CurrencyChars] : parseCurrencyCalled(value)

parseCurrencyReturns ==
    /\ fnCall.fn = "parseCurrency"
    /\ fnCall.pc = "called"
    /\ fnCall' = [fnCall EXCEPT !.pc = "returned", !.ret = parseCurrency(fnCall.arg.value)]
    /\ UNCHANGED <<parsers, versionParserMap, call, db, dbCalls>>

NextCurrency == parseCurrencyReturns

SpecCurrency == InitCurrency /\ [][NextCurrency]_vars

\* ------------------------------------------------------------------------
\* C24  parseCurrency: sign and null
\* ------------------------------------------------------------------------
currencyReturned == fnCall.fn = "parseCurrency" /\ fnCall.pc = "returned"

\* the value without "$", commas and whitespace
strippedOf(value) == replaceAll(value, {"$", ",", " "}, <<>>)

\* what remains of a value once "$", commas, whitespace and the marks of
\* the sign (parentheses, "-") are taken away
remainderOf(value) == replaceAll(strippedOf(value), {"(", ")", "-"}, <<>>)

\* purely numeric: digits with an optional fraction, and nothing else
purelyNumeric(s) == s # <<>> /\ literalLength(s) = Len(s)

markedNegative(value) ==
    \/ includesChar(value, "(")
    \/ (strippedOf(value) # <<>> /\ Head(strippedOf(value)) = "-")

\* C24: parseCurrency strips "$", commas and whitespace; it returns null,
\* never NaN, whenever what remains is not purely numeric, and otherwise a
\* number that is negative exactly when the input contains "(" or its
\* cleaned form starts with "-"; "$1,234.56" gives 1234.56, "(12.34)" gives
\* -12.34, "-5.00" gives -5.00 and "abc" gives null.
C24_NullUnlessNumeric ==
    currencyReturned =>
        LET value == fnCall.arg.value
            ret == fnCall.ret
        IN  /\ ret # NaN
            /\ ~purelyNumeric(remainderOf(value)) => ret = Null
            /\ purelyNumeric(remainderOf(value)) =>
                  /\ ret # Null
                  /\ [ret EXCEPT !.negative = FALSE] = parseFloat(remainderOf(value))
                  /\ ret.negative <=> markedNegative(value)
            /\ value = <<"$", "1", ",", "2", "3", "4", ".", "5", "6">>
                  => ret = Number(FALSE, 123456, 2)
            /\ value = <<"(", "1", "2", ".", "3", "4", ")">> => ret = Number(TRUE, 1234, 2)
            /\ value = <<"-", "5", ".", "0", "0">> => ret = Number(TRUE, 5, 0)
            /\ value = <<"a", "b", "c">> => ret = Null

\* What the code computes: null exactly when what remains does not start
\* with a number; otherwise the number at its start, whatever follows it,
\* negative exactly when the input contains "(" or starts, once "$", commas
\* and whitespace are gone, with "-", "(" or ")"
numberAtStartOfRemainder ==
    currencyReturned =>
        LET value == fnCall.arg.value
            ret == fnCall.ret
        IN  /\ ret # NaN
            /\ (ret = Null) <=> (literalLength(remainderOf(value)) = 0)
            /\ ret # Null =>
                  /\ [ret EXCEPT !.negative = FALSE] = parseFloat(remainderOf(value))
                  /\ ret.negative <=>
                        \/ includesChar(value, "(")
                        \/ (strippedOf(value) # <<>>
                              /\ Head(strippedOf(value)) \in {"-", "(", ")"})
            /\ value = <<"$", "1", ",", "2", "3", "4", ".", "5", "6">>
                  => ret = Number(FALSE, 123456, 2)
            /\ value = <<"(", "1", "2", ".", "3", "4", ")">> => ret = Number(TRUE, 1234, 2)
            /\ value = <<"-", "5", ".", "0", "0">> => ret = Number(TRUE, 5, 0)
            /\ value = <<"a", "b", "c">> => ret = Null

\* ------------------------------------------------------------------------
\* C25  findBestParser and getCompatibleParsers
\* ------------------------------------------------------------------------
bestParserReturned == call.op = "findBestParser" /\ call.pc = "done"

\* the candidate loop of findBestParser on the index entry of a version
candidateLoop(version) ==
    firstCanParse(sortByPriority(candidateRegistrations(parsers, indexOf(version))),
                  1, call.can, <<>>)

\* findBestParser agrees with getCompatibleParsers(doc) on the registry and
\* the canParse answers of the call: the first compatible parser, null when
\* there is none, an exception when getCompatibleParsers throws
firstCompatible ==
    LET compatible == getCompatibleParsers(parsers, call.can, <<>>)
    IN  IF compatible.threw THEN call.outcome = "threw"
        ELSE IF Len(compatible.parsers) > 0
        THEN call.outcome = "parser" /\ call.chosen = compatible.parsers[1]
        ELSE call.outcome = "null" /\ call.chosen = NoParser

\* the same result whatever version is detected, and none from the fallback
\* step: a parser is returned only where the candidate loop found it
versionIndependent ==
    /\ \A doc \in Docs :
          LET other == findBestParser(parsers, versionParserMap, doc, call.can)
          IN  other.kind = call.outcome /\ other.parser = call.chosen
    /\ call.outcome = "parser" =>
          \A i \in 1..Len(getSupportedVersions) :
             LET loop == candidateLoop(getSupportedVersions[i])
             IN  loop.kind = "found" /\ loop.parser = call.chosen

\* C25: for every document and registry state the parser findBestParser
\* returns does not depend on the detected version: it is the first element
\* of getCompatibleParsers(doc), the enabled parser of highest priority whose
\* canParse is true (null when that list is empty), and the fallback step
\* never yields a parser when the candidate loop found none.
C25_FirstCompatibleParser ==
    bestParserReturned => (firstCompatible /\ versionIndependent)

\* What holds: the same, for the calls in which no canParse of an enabled
\* parser throws
firstCompatibleUnlessCanParseThrows ==
    (bestParserReturned /\ \A v \in EnabledIds : call.can[v] # "throw") =>
        (firstCompatible /\ versionIndependent)

\* with a throwing canParse the detected version still plays no part
versionIndependentAlways == bestParserReturned => versionIndependent

\* ========================================================================
\* The catalog under register / unregister / setEnabled
\* ========================================================================
\* Specification: the three mutations alone, with parser objects that can be
\* told apart when they carry the same version id, each call leaving a
\* record of itself: its arguments, what unregister returned, whether
\* register warned of an existing parser and the entry it then replaced.
ParserBuilds == {1, 2}
BuiltParsers == [version : ParserIds, build : ParserBuilds]

NoRegistration == Registration([version |-> "none", build |-> 0], 0, FALSE)

registerCall(parser, priority) ==
    /\ register(parser, priority)
    /\ fnCall' = [fn |-> "register", pc |-> "returned",
                  arg |-> [parser |-> parser, priority |-> priority],
                  ret |-> [warned |-> mapHas(parsers, parser.version),
                           replaced |-> IF mapHas(parsers, parser.version)
                                        THEN mapGet(parsers, parser.version)
                                        ELSE NoRegistration]]
    /\ UNCHANGED <<call, db, dbCalls>>

unregisterCall(version) ==
    /\ unregister(version)
    /\ fnCall' = [fn |-> "unregister", pc |-> "returned", arg |-> [version |-> version],
                  ret |-> mapHas(parsers, version)]
    /\ UNCHANGED <<call, db, dbCalls>>

setEnabledCall(version, enabled) ==
    /\ setEnabled(version, enabled)
    /\ fnCall' = [fn |-> "setEnabled", pc |-> "returned",
                  arg |-> [version |-> version, enabled |-> enabled], ret |-> <<>>]
    /\ UNCHANGED <<call, db, dbCalls>>

NextCatalog ==
    \/ \E parser \in BuiltParsers, priority \in Priorities : registerCall(parser, priority)
    \/ \E version \in ParserIds : unregisterCall(version)
    \/ \E version \in ParserIds, enabled \in BOOLEAN : setEnabledCall(version, enabled)

SpecCatalog == Init /\ [][NextCatalog]_vars

\* ------------------------------------------------------------------------
\* C26  One registration per version id
\* ------------------------------------------------------------------------
\* no two entries of the catalog have the same key
oneEntryPerId(regs) == \A i, j \in 1..Len(regs) : regs[i].key = regs[j].key => i = j

\* a step of register for an id that is registered: the entry of the id
\* holds the new parser and priority and is enabled, every other entry is
\* what it was, where it was
registerReplaces ==
    (fnCall'.fn = "register" /\ mapHas(parsers, fnCall'.arg.parser.version)) =>
        /\ Len(parsers') = Len(parsers)
        /\ \A i \in 1..Len(parsers) :
              parsers'[i] =
                  IF parsers[i].key = fnCall'.arg.parser.version
                  THEN [key |-> parsers[i].key,
                        value |-> Registration(fnCall'.arg.parser, fnCall'.arg.priority, TRUE)]
                  ELSE parsers[i]

\* a step of unregister or setEnabled for an id that is not registered
unknownIdIsNoOp ==
    (/\ fnCall'.fn \in {"unregister", "setEnabled"}
     /\ ~mapHas(parsers, fnCall'.arg.version)) =>
        /\ parsers' = parsers
        /\ versionParserMap' = versionParserMap
        /\ fnCall'.fn = "unregister" => fnCall'.ret = FALSE

catalogStep ==
    /\ oneEntryPerId(parsers')
    /\ registerReplaces
    /\ unknownIdIsNoOp

\* C26: after any sequence of register, unregister and setEnabled the catalog
\* holds at most one registration per version id; register(p, prio) for an
\* id that is already registered replaces the stored parser and priority and
\* sets enabled to true, also when the old entry was disabled, and leaves
\* every other registration unchanged; unregister and setEnabled on an
\* unknown id change neither the catalog nor the index, unregister returning
\* false.
C26_OneRegistrationPerId == [][catalogStep]_vars

\* register replaced a disabled entry that held another parser object and
\* another priority, next to a second registration; the entry is enabled
C26_Witness ==
    /\ fnCall.fn = "register"
    /\ fnCall.ret.warned
    /\ ~fnCall.ret.replaced.enabled
    /\ fnCall.ret.replaced.parser # fnCall.arg.parser
    /\ fnCall.ret.replaced.priority # fnCall.arg.priority
    /\ Len(parsers) = 2
    /\ mapGet(parsers, fnCall.arg.parser.version)
           = Registration(fnCall.arg.parser, fnCall.arg.priority, TRUE)

\* ------------------------------------------------------------------------
\* C27  The ParseResult of parse
\* ------------------------------------------------------------------------
parseResolved == call.op = "parse" /\ call.pc = "done" /\ call.outcome = "resolved"

\* C27: every ParseResult that parse(doc) resolves with reports parserVersion
\* equal to the version id of the one parser whose parse was invoked, exactly
\* one parse having been invoked in the call, and a versionInfo of
\* confidence > 0, which is not the gatekeeper's; a ParseResult whose
\* versionInfo has confidence 0 comes from parseWithVersion only.
C27_ParseResultOfTheInvokedParser ==
    /\ parseResolved =>
          /\ parseInvocations = <<Invoked(call.chosen, "parse")>>
          /\ call.result.parserVersion = call.chosen.version
          /\ call.result.versionInfo = call.versionInfo
          /\ call.result.versionInfo.confidence > 0
    /\ (call.result # NoResult /\ call.result.versionInfo.confidence = 0) =>
          call.op = "parseWithVersion"

\* parse resolved with the default version of the last detection branch,
\* whose method is fallback too but whose confidence is not 0, for a parser
\* that was taken out of the registry while its parse was running
C27_Witness ==
    /\ parseResolved
    /\ call.result.versionInfo.method = "fallback"
    /\ call.result.versionInfo.confidence > 0
    /\ call.result.parserVersion \notin RegisteredIds

\* parseWithVersion does return the gatekeeper's versionInfo
gatekeeperResultFromParseWithVersion ==
    (/\ call.op = "parseWithVersion"
     /\ call.pc = "done"
     /\ call.outcome = "resolved"
     /\ call.versionInfo.method = "fallback") =>
        call.result.versionInfo.confidence \in {0, 50}

\* detectVersion itself: the confidence is 0 for exactly the documents the
\* gatekeeper turns away
zeroConfidenceOnlyFromGatekeeper ==
    versionDetected =>
        ((fnCall.ret.confidence = 0) <=> ~gatekeeperPasses(fnCall.arg.document))

\* ------------------------------------------------------------------------
\* The database client (lib/db/client.ts)
\* ------------------------------------------------------------------------
\* db holds the module variables dbInstance and initPromise, the calls of
\* createDatabase made so far (each one is also the promise it returned, and
\* the instance it opens) and the closeDatabase call in flight.
MaxCallers == 3
MaxCreations == 2
Callers == 1..MaxCallers

\* null (a promise, an instance: a positive number, that of its creation)
null == 0

\* the module as loaded: client.ts lines 24-25
ClosedDatabase ==
    [dbInstance |-> null, initPromise |-> null, creations |-> <<>>,
     closing |-> null, closeCalled |-> FALSE]

NoDbCall ==
    [op |-> "none", pc |-> "idle", promise |-> null, via |-> "none",
     outcome |-> "none", value |-> null]

InitDatabase ==
    /\ parsers = <<>>
    /\ versionParserMap = <<>>
    /\ call = IdleCall
    /\ fnCall = NoFnCall
    /\ db = ClosedDatabase
    /\ dbCalls = [c \in Callers |-> NoDbCall]

\* createDatabase(), up to its first await: initSQLite(...) is called and
\* the promise of the creation is handed back
createDatabase(creations) ==
    Append(creations, [pc |-> "initSQLite", migrations |-> FALSE])

resolvedWith(c, instance, via) ==
    [dbCalls[c] EXCEPT !.pc = "settled", !.outcome = "resolved", !.value = instance,
                       !.via = via]
rejectedBy(c, via) ==
    [dbCalls[c] EXCEPT !.pc = "settled", !.outcome = "rejected", !.via = via]

\* (variant: a caller that finds no instance starts a creation, whether or
\* not one is under way)
getDatabase_NoInitPromise(c) ==
    /\ dbCalls[c].pc = "idle"
    /\ IF db.dbInstance # null
       THEN /\ dbCalls' = [dbCalls EXCEPT ![c] = resolvedWith(c, db.dbInstance, "dbInstance")]
            /\ UNCHANGED db
       ELSE /\ Len(db.creations) < MaxCreations
            /\ db' = [db EXCEPT !.creations = createDatabase(@),
                                !.initPromise = Len(db.creations) + 1]
            /\ dbCalls' = [dbCalls EXCEPT ![c] =
                    [@ EXCEPT !.op = "getDatabase", !.pc = "await initPromise",
                              !.promise = Len(db.creations) + 1]]
    /\ UNCHANGED <<parsers, versionParserMap, call, fnCall>>

\* getDatabase(), up to its return or its await
getDatabase(c) ==
    /\ dbCalls[c].pc = "idle"
    /\ IF db.dbInstance # null
       THEN /\ dbCalls' = [dbCalls EXCEPT ![c] = resolvedWith(c, db.dbInstance, "dbInstance")]
            /\ UNCHANGED db
       ELSE IF db.initPromise # null
       THEN /\ dbCalls' = [dbCalls EXCEPT ![c] =
                    [@ EXCEPT !.op = "getDatabase", !.pc = "return initPromise",
                              !.promise = db.initPromise]]
            /\ UNCHANGED db
       ELSE /\ Len(db.creations) < MaxCreations
            /\ db' = [db EXCEPT !.creations = createDatabase(@),
                                !.initPromise = Len(db.creations) + 1]
            /\ dbCalls' = [dbCalls EXCEPT ![c] =
                    [@ EXCEPT !.op = "getDatabase", !.pc = "await initPromise",
                              !.promise = Len(db.creations) + 1]]
    /\ UNCHANGED <<parsers, versionParserMap, call, fnCall>>

\* createDatabase() resumes from `await initSQLite(...)`: it calls
\* runMigrations(db), or rejects with what initSQLite threw
initSQLiteSettles(k, ok) ==
    /\ k \in 1..Len(db.creations)
    /\ db.creations[k].pc = "initSQLite"
    /\ db' = [db EXCEPT !.creations[k] =
                 IF ok THEN [pc |-> "runMigrations", migrations |-> TRUE]
                       ELSE [@ EXCEPT !.pc = "rejected"]]
    /\ UNCHANGED <<parsers, versionParserMap, call, fnCall, dbCalls>>

\* createDatabase() resumes from `await runMigrations(db)`: it returns db,
\* or rejects with what runMigrations threw
runMigrationsSettles(k, ok) ==
    /\ k \in 1..Len(db.creations)
    /\ db.creations[k].pc = "runMigrations"
    /\ db' = [db EXCEPT !.creations[k].pc = IF ok THEN "fulfilled" ELSE "rejected"]
    /\ UNCHANGED <<parsers, versionParserMap, call, fnCall, dbCalls>>

settledCreation(k) == db.creations[k].pc \in {"fulfilled", "rejected"}

\* getDatabase() resumes from `dbInstance = await initPromise`
getDatabaseResumes(c) ==
    /\ dbCalls[c].pc = "await initPromise"
    /\ settledCreation(dbCalls[c].promise)
    /\ IF db.creations[dbCalls[c].promise].pc = "fulfilled"
       THEN /\ db' = [db EXCEPT !.dbInstance = dbCalls[c].promise]
            /\ dbCalls' = [dbCalls EXCEPT ![c] = resolvedWith(c, dbCalls[c].promise, "await")]
       ELSE /\ dbCalls' = [dbCalls EXCEPT ![c] = rejectedBy(c, "await")]
            /\ UNCHANGED db
    /\ UNCHANGED <<parsers, versionParserMap, call, fnCall>>

\* the promise of a getDatabase() that returned initPromise settles as
\* initPromise did
initPromiseAdopted(c) ==
    /\ dbCalls[c].pc = "return initPromise"
    /\ settledCreation(dbCalls[c].promise)
    /\ dbCalls' = [dbCalls EXCEPT ![c] =
            IF db.creations[dbCalls[c].promise].pc = "fulfilled"
            THEN resolvedWith(c, dbCalls[c].promise, "initPromise")
            ELSE rejectedBy(c, "initPromise")]
    /\ UNCHANGED <<parsers, versionParserMap, call, fnCall, db>>

\* closeDatabase(), up to `await dbInstance.close()`, or to its end when
\* there is no instance
closeDatabase ==
    /\ db.closing = null
    /\ db' = [db EXCEPT !.closing = db.dbInstance, !.closeCalled = TRUE]
    /\ UNCHANGED <<parsers, versionParserMap, call, fnCall, dbCalls>>

\* closeDatabase() resumes from `await dbInstance.close()`
closeDatabaseResumes(ok) ==
    /\ db.closing # null
    /\ db' = IF ok THEN [db EXCEPT !.dbInstance = null, !.initPromise = null,
                                   !.closing = null]
                   ELSE [db EXCEPT !.closing = null]
    /\ UNCHANGED <<parsers, versionParserMap, call, fnCall, dbCalls>>

NextDatabase ==
    \/ \E c \in Callers : getDatabase(c)
    \/ \E k \in 1..MaxCreations, ok \in BOOLEAN : initSQLiteSettles(k, ok)
    \/ \E k \in 1..MaxCreations, ok \in BOOLEAN : runMigrationsSettles(k, ok)
    \/ \E c \in Callers : getDatabaseResumes(c)
    \/ \E c \in Callers : initPromiseAdopted(c)
    \/ closeDatabase
    \/ \E ok \in BOOLEAN : closeDatabaseResumes(ok)

SpecDatabase == InitDatabase /\ [][NextDatabase]_vars

\* ------------------------------------------------------------------------
\* C28  getDatabase is a singleton
\* ------------------------------------------------------------------------
creationsStarted == Len(db.creations)
migrationRunsStarted == Cardinality({k \in 1..Len(db.creations) : db.creations[k].migrations})
initialized == creationsStarted >= 1 /\ db.creations[1].pc = "fulfilled"

\* C28: as long as closeDatabase has not been called, however the
\* getDatabase calls interleave, createDatabase has been started at most
\* once and runMigrations at most once, the callers that resolved hold one
\* and the same instance, and once the initialization has completed every
\* caller that settled, whichever way it got its answer, resolved with
\* that instance.
C28_GetDatabaseSingleton ==
    ~db.closeCalled =>
        /\ creationsStarted <= 1
        /\ migrationRunsStarted <= 1
        /\ \A c1, c2 \in Callers :
              dbCalls[c1].outcome = "resolved" /\ dbCalls[c2].outcome = "resolved"
                  => dbCalls[c1].value = dbCalls[c2].value
        /\ \A c \in Callers :
              initialized /\ dbCalls[c].pc = "settled"
                  => dbCalls[c].outcome = "resolved" /\ dbCalls[c].value = 1

\* three callers resolved with the instance: the one that started the
\* creation, one that arrived while it was under way and one that arrived
\* after it
C28_Witness ==
    /\ ~db.closeCalled
    /\ migrationRunsStarted = 1
    /\ \E c1, c2, c3 \in Callers :
          /\ dbCalls[c1].outcome = "resolved" /\ dbCalls[c1].via = "await"
          /\ dbCalls[c2].outcome = "resolved" /\ dbCalls[c2].via = "initPromise"
          /\ dbCalls[c3].outcome = "resolved" /\ dbCalls[c3].via = "dbInstance"

\* a creation that failed is not started again: initPromise keeps the
\* rejected promise and every later caller is rejected
rejectedInitializationIsKept ==
    ~db.closeCalled /\ creationsStarted >= 1 /\ db.creations[1].pc = "rejected"
        => /\ db.dbInstance = null /\ db.initPromise = 1
           /\ \A c \in Callers : dbCalls[c].pc = "settled" => dbCalls[c].outcome = "rejected"

\* ------------------------------------------------------------------------
\* The batch inserts (lib/db/queries: createTrades, createClosedPositions,
\* createOpenPositions, createCashFlows) on the one SQLite connection
\* ------------------------------------------------------------------------
\* Here db is the connection that getDatabase() hands to every caller:
\*   inTransaction    a transaction is open (BEGIN without COMMIT/ROLLBACK)
\*   pending          the rows written in the open transaction
\*   committed        the rows that are committed
\*   engineRolledBack the engine has ended a transaction by itself, which
\*                    SQLite does on an error such as SQLITE_FULL or
\*                    SQLITE_IOERR (a constraint error fails the statement
\*                    only)
\* and dbCalls[c] is the batch call of caller c: op, the number of its
\* inputs, the input it is at (next), pc (the statement it runs next) and
\* outcome.
MaxBatches == 2
MaxRows == 2
BatchCallers == 1..MaxBatches
BatchInserts ==
    {"createTrades", "createClosedPositions", "createOpenPositions", "createCashFlows"}
InsertFaults == {"none", "statement", "transaction"}

Row(c, i) == [batch |-> c, input |-> i]
inputRows(c) == {Row(c, i) : i \in 1..dbCalls[c].inputs}

OpenConnection ==
    [inTransaction |-> FALSE, pending |-> {}, committed |-> {},
     engineRolledBack |-> FALSE]

NoBatch == [op |-> "none", pc |-> "idle", inputs |-> 0, next |-> 0, outcome |-> "none"]

InitBatch ==
    /\ parsers = <<>>
    /\ versionParserMap = <<>>
    /\ call = IdleCall
    /\ fnCall = NoFnCall
    /\ db = OpenConnection
    /\ dbCalls = [c \in BatchCallers |-> NoBatch]

\* db.run(sql) on the connection: the connection afterwards and whether
\* the statement threw
run(conn, sql, row, fault) ==
    CASE sql = "BEGIN TRANSACTION" ->
            IF conn.inTransaction
            THEN [db |-> conn, threw |-> TRUE]
            ELSE [db |-> [conn EXCEPT !.inTransaction = TRUE], threw |-> FALSE]
      [] sql = "INSERT" ->
            IF fault = "statement"
            THEN [db |-> conn, threw |-> TRUE]
            ELSE IF fault = "transaction"
            THEN [db |-> [conn EXCEPT !.inTransaction = FALSE, !.pending = {},
                                      !.engineRolledBack = @ \/ conn.inTransaction],
                  threw |-> TRUE]
            ELSE IF conn.inTransaction
            THEN [db |-> [conn EXCEPT !.pending = @ \cup {row}], threw |-> FALSE]
            ELSE [db |-> [conn EXCEPT !.committed = @ \cup {row}], threw |-> FALSE]
      [] sql = "COMMIT" ->
            IF conn.inTransaction
            THEN [db |-> [conn EXCEPT !.inTransaction = FALSE, !.pending = {},
                                      !.committed = @ \cup conn.pending],
                  threw |-> FALSE]
            ELSE [db |-> conn, threw |-> TRUE]
      [] sql = "ROLLBACK" ->
            IF conn.inTransaction
            THEN [db |-> [conn EXCEPT !.inTransaction = FALSE, !.pending = {}],
                  threw |-> FALSE]
            ELSE [db |-> conn, threw |-> TRUE]

\* a batch insert is called and has its connection: it is about to run
\* BEGIN TRANSACTION
batchCalled(c, op, n) ==
    /\ dbCalls[c].pc = "idle"
    /\ dbCalls' = [dbCalls EXCEPT ![c] =
            [op |-> op, pc |-> "BEGIN TRANSACTION", inputs |-> n, next |-> 1,
             outcome |-> "none"]]
    /\ UNCHANGED <<parsers, versionParserMap, call, fnCall, db>>

\* await db.run("BEGIN TRANSACTION"), before the try block: what it throws
\* rejects the call
beginRuns(c) ==
    /\ dbCalls[c].pc = "BEGIN TRANSACTION"
    /\ LET r == run(db, "BEGIN TRANSACTION", Row(c, 0), "none") IN
          /\ db' = r.db
          /\ dbCalls' = [dbCalls EXCEPT ![c] =
                 IF r.threw
                 THEN [@ EXCEPT !.pc = "settled", !.outcome = "rejected"]
                 ELSE [@ EXCEPT !.pc = IF dbCalls[c].inputs = 0 THEN "COMMIT" ELSE "INSERT"]]
    /\ UNCHANGED <<parsers, versionParserMap, call, fnCall>>

\* await db.run(`INSERT INTO ...`) for the next input
insertRuns(c, fault) ==
    /\ dbCalls[c].pc = "INSERT"
    /\ LET r == run(db, "INSERT", Row(c, dbCalls[c].next), fault) IN
          /\ db' = r.db
          /\ dbCalls' = [dbCalls EXCEPT ![c] =
                 IF r.threw
                 THEN [@ EXCEPT !.pc = "ROLLBACK"]
                 ELSE [@ EXCEPT !.next = @ + 1,
                                !.pc = IF dbCalls[c].next = dbCalls[c].inputs
                                       THEN "COMMIT" ELSE "INSERT"]]
    /\ UNCHANGED <<parsers, versionParserMap, call, fnCall>>

\* await db.run("COMMIT")
commitRuns(c) ==
    /\ dbCalls[c].pc = "COMMIT"
    /\ LET r == run(db, "COMMIT", Row(c, 0), "none") IN
          /\ db' = r.db
          /\ dbCalls' = [dbCalls EXCEPT ![c] =
                 IF r.threw
                 THEN [@ EXCEPT !.pc = "ROLLBACK"]
                 ELSE [@ EXCEPT !.pc = "settled", !.outcome = "resolved"]]
    /\ UNCHANGED <<parsers, versionParserMap, call, fnCall>>

\* catch: await db.run("ROLLBACK"); throw error
rollbackRuns(c) ==
    /\ dbCalls[c].pc = "ROLLBACK"
    /\ db' = run(db, "ROLLBACK", Row(c, 0), "none").db
    /\ dbCalls' = [dbCalls EXCEPT ![c] = [@ EXCEPT !.pc = "settled", !.outcome = "rejected"]]
    /\ UNCHANGED <<parsers, versionParserMap, call, fnCall>>

NextBatch ==
    \/ \E c \in BatchCallers, op \in BatchInserts, n \in 0..MaxRows : batchCalled(c, op, n)
    \/ \E c \in BatchCallers : beginRuns(c)
    \/ \E c \in BatchCallers, fault \in InsertFaults : insertRuns(c, fault)
    \/ \E c \in BatchCallers : commitRuns(c)
    \/ \E c \in BatchCallers : rollbackRuns(c)

SpecBatch == InitBatch /\ [][NextBatch]_vars

\* ------------------------------------------------------------------------
\* C29  batch inserts are all-or-nothing
\* ------------------------------------------------------------------------
committedOf(conn, c) == {r \in conn.committed : r.batch = c}
pendingOfOthers(conn, c) == {r \in conn.pending : r.batch # c}

\* the call of c settles in this step with all of its rows committed, or
\* none
settlesAllOrNothing(c) ==
    dbCalls[c].pc # "settled" /\ dbCalls'[c].pc = "settled"
        => \/ committedOf(db', c) = inputRows(c)
           \/ committedOf(db', c) = {}

\* the failure of c (its catch block) leaves the rows that other calls
\* wrote as they were: what was pending is pending, nothing more is
\* committed
failureSparesOthers(c) ==
    dbCalls[c].pc = "ROLLBACK" /\ dbCalls'[c].pc = "settled"
        => /\ pendingOfOthers(db, c) = pendingOfOthers(db', c)
           /\ \A d \in BatchCallers \ {c} : committedOf(db', d) = committedOf(db, d)

batchStep == \A c \in BatchCallers : settlesAllOrNothing(c) /\ failureSparesOthers(c)

\* C29: each batch insert is all-or-nothing (when it settles, all of its
\* input rows are committed or none is) and the failure of one batch
\* neither commits nor rolls back rows written by another, however the
\* concurrent batch calls interleave on the connection.
C29_BatchAllOrNothing == [][batchStep]_vars

\* what holds: as long as the engine has not ended a transaction by itself
\* (the failures are those of a statement), a batch that settles has all of
\* its rows committed or none, and the rows of an open transaction are
\* those of one batch
allOrNothingWithoutEngineRollback ==
    ~db.engineRolledBack =>
        /\ \A c \in BatchCallers :
              dbCalls[c].pc = "settled" =>
                  \/ committedOf(db, c) = inputRows(c) /\ dbCalls[c].outcome = "resolved"
                  \/ committedOf(db, c) = {} /\ dbCalls[c].outcome = "rejected"
        /\ \A r1, r2 \in db.pending : r1.batch = r2.batch

sparedWithoutEngineRollback ==
    [][~db.engineRolledBack => batchStep]_vars

\* a call alone on the connection is all-or-nothing, whatever fails
aloneOnTheConnection(c) == \A d \in BatchCallers \ {c} : dbCalls[d].pc = "idle"
allOrNothingAlone ==
    \A c \in BatchCallers :
        aloneOnTheConnection(c) /\ dbCalls[c].pc = "settled" =>
            \/ committedOf(db, c) = inputRows(c) /\ dbCalls[c].outcome = "resolved"
            \/ committedOf(db, c) = {} /\ dbCalls[c].outcome = "rejected"

\* ------------------------------------------------------------------------
\* The migrations (lib/db/migrations/index.ts)
\* ------------------------------------------------------------------------
\* Here db is the connection handed to runMigrations, with rows of two
\* kinds: [table "schema", version v], what migration v's up() creates, and
\* [table "schema_version", version v], the record of version v.  dbCalls
\* is the call of runMigrations: pc (the statement it runs next), its
\* locals currentVersion and pendingMigrations, the pending migration it is
\* at (next), outcome, and for reference the versions recorded when it was
\* called (before) and the migrations it has committed (applied).
MaxMigrations == 3
\* the list `migrations`, by its versions
migrations == [i \in 1..MaxMigrations |-> i]

SchemaOf(version) == [table |-> "schema", version |-> version]
VersionRecord(version) == [table |-> "schema_version", version |-> version]

recordedVersions(conn) ==
    {r.version : r \in {q \in conn.committed \cup conn.pending : q.table = "schema_version"}}
schemaVersions(conn) ==
    {r.version : r \in {q \in conn.committed \cup conn.pending : q.table = "schema"}}

maxOf(versions) ==
    IF versions = {} THEN 0 ELSE CHOOSE v \in versions : \A w \in versions : w <= v

\* migrations.filter((m) => m.version > currentVersion)
pendingFrom(list, currentVersion) ==
    SelectSeq(list, LAMBDA version : version > currentVersion)

NoRun ==
    [pc |-> "idle", currentVersion |-> 0, pendingMigrations |-> <<>>, next |-> 0,
     outcome |-> "none", before |-> {}, applied |-> <<>>]

InitMigrations ==
    /\ parsers = <<>>
    /\ versionParserMap = <<>>
    /\ call = IdleCall
    /\ fnCall = NoFnCall
    /\ db = OpenConnection
    /\ dbCalls = NoRun

\* runMigrations(db) is called (on a new database, or on one that earlier
\* runs have migrated): it is about to run the SELECT of getCurrentVersion
runMigrationsCalled ==
    /\ dbCalls.pc \in {"idle", "settled"}
    /\ dbCalls' = [NoRun EXCEPT !.pc = "SELECT", !.before = recordedVersions(db)]
    /\ UNCHANGED <<parsers, versionParserMap, call, fnCall, db>>

\* getCurrentVersion(db): MAX(version), 0 for an empty table and 0 when the
\* SELECT throws, as it does when the table is not there; then the filter
\* and the test of pendingMigrations.length
getCurrentVersion(conn, threw) ==
    IF threw \/ SchemaOf(1) \notin conn.committed THEN 0 ELSE maxOf(recordedVersions(conn))

getCurrentVersionReturns(threw) ==
    /\ dbCalls.pc = "SELECT"
    /\ LET currentVersion == getCurrentVersion(db, threw)
           pendingMigrations == pendingFrom(migrations, currentVersion)
       IN  dbCalls' = [dbCalls EXCEPT
                 !.currentVersion = currentVersion,
                 !.pendingMigrations = pendingMigrations,
                 !.next = 1,
                 !.pc = IF Len(pendingMigrations) = 0 THEN "settled" ELSE "BEGIN TRANSACTION",
                 !.outcome = IF Len(pendingMigrations) = 0 THEN "resolved" ELSE "none"]
    /\ UNCHANGED <<parsers, versionParserMap, call, fnCall, db>>

migration == dbCalls.pendingMigrations[dbCalls.next]

\* try { await db.run("BEGIN TRANSACTION")
migrationBegins ==
    /\ dbCalls.pc = "BEGIN TRANSACTION"
    /\ LET r == run(db, "BEGIN TRANSACTION", SchemaOf(migration), "none") IN
          /\ db' = r.db
          /\ dbCalls' = [dbCalls EXCEPT !.pc = IF r.threw THEN "ROLLBACK" ELSE "up"]
    /\ UNCHANGED <<parsers, versionParserMap, call, fnCall>>

\* await migration.up(db)
upRuns(fault) ==
    /\ dbCalls.pc = "up"
    /\ LET r == run(db, "INSERT", SchemaOf(migration), fault) IN
          /\ db' = r.db
          /\ dbCalls' = [dbCalls EXCEPT !.pc = IF r.threw THEN "ROLLBACK"
                                                          ELSE "INSERT INTO schema_version"]
    /\ UNCHANGED <<parsers, versionParserMap, call, fnCall>>

\* (variant: the version is not recorded)
versionRecorded_Skipped(fault) ==
    /\ dbCalls.pc = "INSERT INTO schema_version"
    /\ fault = "none"
    /\ dbCalls' = [dbCalls EXCEPT !.pc = "COMMIT"]
    /\ UNCHANGED <<parsers, versionParserMap, call, fnCall, db>>

\* await db.run("INSERT INTO schema_version (version, description) ...");
\* version is the PRIMARY KEY of the table: recording a version that is
\* recorded fails
versionRecorded(fault) ==
    /\ dbCalls.pc = "INSERT INTO schema_version"
    /\ migration \in recordedVersions(db) => fault # "none"
    /\ LET r == run(db, "INSERT", VersionRecord(migration), fault) IN
          /\ db' = r.db
          /\ dbCalls' = [dbCalls EXCEPT !.pc = IF r.threw THEN "ROLLBACK" ELSE "COMMIT"]
    /\ UNCHANGED <<parsers, versionParserMap, call, fnCall>>

\* await db.run("COMMIT"), and the next turn of the loop or the end of it
migrationCommits(threw) ==
    /\ dbCalls.pc = "COMMIT"
    /\ LET r == IF threw THEN [db |-> db, threw |-> TRUE]
                         ELSE run(db, "COMMIT", SchemaOf(migration), "none")
       IN
          /\ db' = r.db
          /\ dbCalls' =
                IF r.threw
                THEN [dbCalls EXCEPT !.pc = "ROLLBACK"]
                ELSE IF dbCalls.next = Len(dbCalls.pendingMigrations)
                THEN [dbCalls EXCEPT !.applied = Append(@, migration),
                                     !.pc = "settled", !.outcome = "resolved"]
                ELSE [dbCalls EXCEPT !.applied = Append(@, migration),
                                     !.next = @ + 1, !.pc = "BEGIN TRANSACTION"]
    /\ UNCHANGED <<parsers, versionParserMap, call, fnCall>>

\* catch: await db.run("ROLLBACK"); throw new Error(...)
migrationFails ==
    /\ dbCalls.pc = "ROLLBACK"
    /\ db' = run(db, "ROLLBACK", SchemaOf(migration), "none").db
    /\ dbCalls' = [dbCalls EXCEPT !.pc = "settled", !.outcome = "rejected"]
    /\ UNCHANGED <<parsers, versionParserMap, call, fnCall>>

NextMigrations ==
    \/ runMigrationsCalled
    \/ \E threw \in BOOLEAN : getCurrentVersionReturns(threw)
    \/ migrationBegins
    \/ \E fault \in InsertFaults : upRuns(fault)
    \/ \E fault \in InsertFaults : versionRecorded(fault)
    \/ \E threw \in BOOLEAN : migrationCommits(threw)
    \/ migrationFails

SpecMigrations == InitMigrations /\ [][NextMigrations]_vars

\* ------------------------------------------------------------------------
\* C30  runMigrations
\* ------------------------------------------------------------------------
committedRecords == {r.version : r \in {q \in db.committed : q.table = "schema_version"}}
committedSchemas == {r.version : r \in {q \in db.committed : q.table = "schema"}}

\* the migrations whose version is greater than the schema version the
\* run found, in list order
newerMigrations == pendingFrom(migrations, maxOf(dbCalls.before))
isPrefix(s, t) == Len(s) <= Len(t) /\ \A i \in 1..Len(s) : s[i] = t[i]
versionsOf(s) == {s[i] : i \in 1..Len(s)}

nothingPendingAppliesNothing ==
    dbCalls.pc = "settled" /\ dbCalls.before = versionsOf(migrations)
        => /\ dbCalls.applied = <<>>
           /\ dbCalls.outcome = "rejected" <=> dbCalls.currentVersion = 0

====
